---- MODULE Spec2Model ----
(***************************************************************************)
(* Multi-resolution hit statistics of l4 (src/src/stats.ts and the        *)
(* windowed revision of the same module, src/unnamed/part_002).           *)
(*                                                                         *)
(* The three rollup tables are sets of rows [image_key, bucket, hits];    *)
(* the clock is wall-clock time in whole seconds, Math.floor(Date.now() /  *)
(* 1000), and it never runs backwards.                                     *)
(***************************************************************************)
EXTENDS Bags, FiniteSets, Integers, Sequences, TLC

VARIABLES
    now,                \* Math.floor(Date.now() / 1000) as the next call will read it
    image_stats_10min,  \* fine table, rows [image_key, bucket, hits]
    image_stats,        \* medium (hourly) table
    image_stats_daily,  \* coarse (daily) table
    lastCleanup,        \* module variable of stats.ts
    hitLog,             \* history: bag of <<imageKey, now>>, one copy per recordHit call
    incLog,             \* history: bag of <<table, imageKey, bucket>>, one copy per upsert on a live row
    nTicks,             \* number of clock advances so far
    res,                \* the query being answered and what it returns
    pc,                 \* per request context: the statement of recordHit it is about to run
    frame,              \* per request context: the locals of its recordHit call
    days,               \* Dashboard.days
    overview,           \* the data renderOverview last rendered into the overview panel
    consoleErrors,      \* the fetchData calls that logged "Failed to fetch data:"
    lastApplied,        \* history: the request whose series the cache took last, none after the cache is emptied
    chart,              \* Dashboard.chart: the data uPlot shows and its x scale, or NoChart
    abortController,    \* Dashboard.abortController: number of the controller it holds, 0 for null
    originalRange,      \* Dashboard.originalRange
    currentRange,       \* Dashboard.currentRange
    lodCache,           \* Dashboard.lodCache: granularity label -> LodCacheEntry
    activeGranularity,  \* Dashboard.activeGranularity
    isLoading,          \* Dashboard.isLoading
    pending,            \* fetchData calls suspended at their await
    aborted,            \* controllers whose signal is aborted
    nFetch,             \* number of fetchData calls so far
    view,               \* history: the last zoom selection and what handleSelect did with it
    slackPc,            \* processSlackFiles: the await it is suspended at
    filePromises,       \* processSlackFiles: per file of event.files, the step it is at or its result
    slackCalls,         \* callSlackAPI promises of the call: name -> pending, fulfilled or rejected
    reactions,          \* Slack: the bot's reactions on the message
    reactionLog,        \* history: the reactions Slack accepted from the bot, oldest first
    thread              \* Slack: number of replies the bot posted in the message's thread

dashboard == <<days, overview, consoleErrors, lastApplied, chart, abortController, originalRange, currentRange, lodCache,
               activeGranularity, isLoading, pending, aborted, nFetch, view>>

slack == <<slackPc, filePromises, slackCalls, reactions, reactionLog, thread>>

vars == <<now, image_stats_10min, image_stats, image_stats_daily, lastCleanup,
          hitLog, incLog, nTicks, res, pc, frame, dashboard, slack>>

----------------------------------------------------------------------------
(* Bounds of the model *)

StartTime == 1700003600
MaxHits == 2
MaxTicks == 2
MaxConcHits == 2
MaxOffset == 2
MaxTs == 5
MaxPoints == 2
MaxFetches == 3

(* Program constants *)

TEN_MINUTES == 600
HOUR == 3600
DAY == 86400

Keys == {"a", "b"}

\* lexical order of the keys
KeyRank == [k \in Keys |-> IF k = "a" THEN 1 ELSE 2]

\* how far the clock moves between two calls
Deltas == {60, TEN_MINUTES, HOUR, 8 * DAY, 30 * DAY - HOUR, 91 * DAY}

Contexts == {1, 2}

----------------------------------------------------------------------------
(* Helpers over rows *)

RECURSIVE SumHits(_)
SumHits(rows) ==
    IF rows = {} THEN 0
    ELSE LET r == CHOOSE x \in rows : TRUE
         IN r.hits + SumHits(rows \ {r})

MinOf(S) == CHOOSE x \in S : \A y \in S : x <= y
MaxOf(S) == CHOOSE x \in S : \A y \in S : x >= y

RECURSIVE Ascending(_)
Ascending(S) ==
    IF S = {} THEN <<>>
    ELSE LET m == MinOf(S) IN <<m>> \o Ascending(S \ {m})

Row(k, b, h) == [image_key |-> k, bucket |-> b, hits |-> h]

\* the bucket index instead of the bucket start
alignDown_Index(t, period) == t \div period

\* every bucket aligned to the 10-minute period, whatever its table
alignDown_TenMinutes(t, period) == t - (t % TEN_MINUTES)

\* t - (t % period), as written in recordHit
alignDown(t, period) == t - (t % period)

\* Upsert with ON CONFLICT DO NOTHING: a conflicting row keeps its count
Upsert_DoNothing(table, k, b) ==
    IF \E r \in table : r.image_key = k /\ r.bucket = b
    THEN table
    ELSE table \cup {Row(k, b, 1)}

\* Upsert as INSERT OR REPLACE: a conflicting row is reset to hits = 1
Upsert_Replace(table, k, b) ==
    {r \in table : ~(r.image_key = k /\ r.bucket = b)} \cup {Row(k, b, 1)}

\* Upsert with the conflict target on the key alone: PRIMARY KEY (image_key)
Upsert_WholeKey(table, k, b) ==
    IF \E r \in table : r.image_key = k
    THEN {IF r.image_key = k THEN [r EXCEPT !.hits = @ + 1] ELSE r : r \in table}
    ELSE table \cup {Row(k, b, 1)}

\* Upsert as INSERT OR REPLACE on a key-only primary key: the key's other buckets go
Upsert_KeepOne(table, k, b) ==
    IF \E r \in table : r.image_key = k /\ r.bucket = b
    THEN {IF r.image_key = k /\ r.bucket = b THEN [r EXCEPT !.hits = @ + 1] ELSE r : r \in table}
    ELSE {r \in table : r.image_key # k} \cup {Row(k, b, 1)}

\* INSERT ... VALUES (k, b, 1) ON CONFLICT(image_key, bucket) DO UPDATE SET hits = hits + 1
Upsert(table, k, b) ==
    IF \E r \in table : r.image_key = k /\ r.bucket = b
    THEN {IF r.image_key = k /\ r.bucket = b THEN [r EXCEPT !.hits = @ + 1] ELSE r : r \in table}
    ELSE table \cup {Row(k, b, 1)}

\* the sweep deleting nothing: lastCleanup moves on, the rows stay
cleanup10MinStmt_Nothing(table, cutoff) == table

\* the sweep keeping 30 days instead of one
cleanup10MinStmt_Month(table, cutoff) == {r \in table : ~(r.bucket < cutoff - 29 * DAY)}

\* the sweep keeping ten minutes instead of a day
cleanup10MinStmt_TenMinutes(table, cutoff) ==
    {r \in table : ~(r.bucket < cutoff + DAY - TEN_MINUTES)}

\* the sweep without the 24-hour horizon: everything before the current day-shifted cutoff
cleanup10MinStmt_NoHorizon(table, cutoff) == {r \in table : ~(r.bucket < cutoff + DAY)}

\* DELETE FROM image_stats_10min WHERE bucket_10min < ?
cleanup10MinStmt(table, cutoff) == {r \in table : ~(r.bucket < cutoff)}

\* the sweep on every call
shouldCleanup_Always(t, last) == TRUE

\* if (now - lastCleanup >= 600)
shouldCleanup(t, last) == t - last >= TEN_MINUTES

NoResult == [op |-> "none"]

\* null for a chart, a range and a granularity; no selection made yet
NoChart == [uPlot |-> "null"]
NullRange == [range |-> "null"]
NoGranularity == "null"
NoView == [by |-> "none"]

NoRequest == [request |-> "none"]

\* the overview panel as the page is delivered
NoOverview == [totalHits |-> "-"]

\* the field initialisers of class Dashboard, before its constructor runs
\* no Slack event has arrived
SlackFields ==
    /\ slackPc = "idle"
    /\ filePromises = <<>>
    /\ slackCalls = <<>>
    /\ reactions = {}
    /\ reactionLog = <<>>
    /\ thread = 0

DashboardFields ==
    /\ days = 7
    /\ overview = NoOverview
    /\ consoleErrors = {}
    /\ lastApplied = NoRequest
    /\ chart = NoChart
    /\ abortController = 0
    /\ originalRange = NullRange
    /\ currentRange = NullRange
    /\ lodCache = <<>>
    /\ activeGranularity = NoGranularity
    /\ isLoading = FALSE
    /\ pending = {}
    /\ aborted = {}
    /\ nFetch = 0
    /\ view = NoView

----------------------------------------------------------------------------
(* The state after module initialisation: empty tables, lastCleanup = 0 *)

Init ==
    /\ now = StartTime
    /\ image_stats_10min = {}
    /\ image_stats = {}
    /\ image_stats_daily = {}
    /\ lastCleanup = 0
    /\ hitLog = EmptyBag
    /\ incLog = EmptyBag
    /\ nTicks = 0
    /\ res = NoResult
    /\ pc = [c \in Contexts |-> "idle"]
    /\ frame = [c \in Contexts |-> [imageKey |-> "a", now |-> 0]]
    /\ DashboardFields
    /\ SlackFields

\* the wall clock advances
Tick(d) ==
    /\ nTicks < MaxTicks
    /\ res = NoResult
    /\ now' = now + d
    /\ nTicks' = nTicks + 1
    /\ UNCHANGED res
    /\ UNCHANGED <<image_stats_10min, image_stats, image_stats_daily, lastCleanup,
                   hitLog, incLog, pc, frame, dashboard, slack>>

\* rows of the fine table the sweep at time t removes
Swept(table, t) == table \ cleanup10MinStmt(table, alignDown(t - DAY, TEN_MINUTES))

\* incLog without the rows a sweep deleted
Forget(log, gone) ==
    [e \in {x \in DOMAIN log : ~(x[1] = "10min" /\ \E r \in gone :
                                   r.image_key = x[2] /\ r.bucket = x[3])} |-> log[e]]

\* recordHit(imageKey), run to completion (JavaScript runs the handler without preemption)
recordHit(imageKey) ==
    LET bucket10Min == alignDown(now, TEN_MINUTES)
        bucketHour == alignDown(now, HOUR)
        bucketDay == alignDown(now, DAY)
        written == Upsert(image_stats_10min, imageKey, bucket10Min)
        sweep == shouldCleanup(now, lastCleanup)
        dayAgo == now - DAY
        cleanupBucket == alignDown(dayAgo, TEN_MINUTES)
        logged == incLog (+) SetToBag({<<"10min", imageKey, bucket10Min>>,
                                       <<"hour", imageKey, bucketHour>>,
                                       <<"day", imageKey, bucketDay>>})
    IN  /\ BagCardinality(hitLog) < MaxHits
        /\ res = NoResult
        /\ \A c \in Contexts : pc[c] = "idle"
        /\ image_stats' = Upsert(image_stats, imageKey, bucketHour)
        /\ image_stats_daily' = Upsert(image_stats_daily, imageKey, bucketDay)
        /\ IF sweep
           THEN /\ image_stats_10min' = cleanup10MinStmt(written, cleanupBucket)
                /\ lastCleanup' = now
                /\ incLog' = Forget(logged, Swept(written, now))
           ELSE /\ image_stats_10min' = written
                /\ lastCleanup' = lastCleanup
                /\ incLog' = logged
        /\ hitLog' = hitLog (+) SetToBag({<<imageKey, now>>})
        /\ UNCHANGED <<now, nTicks, res, pc, frame, dashboard, slack>>

----------------------------------------------------------------------------
(* Read side *)

\* sinceDays values the callers pass; limits of getTopImages
Days == {1, 7, 30, 400}
Limits == {1, 2}

\* the WHERE clause left out
InRange_All(table, since) == table

InRange(table, since) == {r \in table : r.bucket >= since}
InWindow(table, since, end) == {r \in table : r.bucket >= since /\ r.bucket <= end}

\* the grouping with ORDER BY bucket DESC
GroupBy_Descending(rows, size) ==
    LET super(r) == (r.bucket \div size) * size
        order == Ascending({super(r) : r \in rows})
        n == Len(order)
    IN  [i \in 1..n |->
            [bucket |-> order[n + 1 - i],
             hits |-> SumHits({r \in rows : super(r) = order[n + 1 - i]})]]

\* SELECT (bucket / size) * size AS bucket, SUM(hits) ... GROUP BY bucket ORDER BY bucket
GroupBy(rows, size) ==
    LET super(r) == (r.bucket \div size) * size
        order == Ascending({super(r) : r \in rows})
    IN  [i \in 1..Len(order) |->
            [bucket |-> order[i], hits |-> SumHits({r \in rows : super(r) = order[i]})]]

\* getTotalHits reading the 10-minute table
getTotalHits_FineTable(sinceDays) ==
    LET since == now - sinceDays * DAY
        rows == InRange(image_stats_10min, since)
    IN  IF rows = {} THEN 0 ELSE SumHits(rows)

\* getTotalHits(sinceDays): SUM(hits) is NULL on no rows, and NULL ?? 0 is 0
getTotalHits(sinceDays) ==
    LET since == now - sinceDays * DAY
        rows == InRange(image_stats, since)
    IN  IF rows = {} THEN 0 ELSE SumHits(rows)

\* getUniqueImages(sinceDays): COUNT(DISTINCT image_key)
getUniqueImages(sinceDays) ==
    Cardinality({r.image_key : r \in InRange(image_stats, now - sinceDays * DAY)})

\* getStats(imageKey, sinceDays): SELECT bucket_hour, hits ... WHERE image_key = ? AND
\* bucket_hour >= ? ORDER BY bucket_hour
getStats(imageKey, sinceDays) ==
    LET since == now - sinceDays * DAY
    IN  GroupBy({r \in InRange(image_stats, since) : r.image_key = imageKey}, 1)

\* total of one key over the UNION ALL of the hourly and the 10-minute rows
TopTotal(k, since) ==
    SumHits({r \in InRange(image_stats, since) : r.image_key = k})
    + SumHits({r \in InRange(image_stats_10min, since) : r.image_key = k})

\* getTopImages(sinceDays, limit): every row sequence ORDER BY total DESC LIMIT ? may
\* return; SQL leaves the order of rows with equal totals open
getTopImages(sinceDays, limit) ==
    LET since == now - sinceDays * DAY
        groups == {k \in Keys : \E r \in InRange(image_stats, since)
                                        \cup InRange(image_stats_10min, since) : r.image_key = k}
        n == Cardinality(groups)
        orders == {s \in [1..n -> groups] :
                      /\ \A i, j \in 1..n : i # j => s[i] # s[j]
                      /\ \A i, j \in 1..n : i < j => TopTotal(s[i], since) >= TopTotal(s[j], since)}
        m == IF limit < n THEN limit ELSE n
    IN  {[i \in 1..m |-> [image_key |-> s[i], total |-> TopTotal(s[i], since)]] : s \in orders}

\* the 10-minute series returned without looking at its length
hasData_Always(data) == TRUE

\* data.length > 0: the 10-minute series is used only when it has a point
hasData(data) == Len(data) > 0

\* the daily branch with the thresholds of the hourly branch (7 days)
dailyBucket_HourlyRule(actualSpanSeconds) ==
    LET dayMultiplier == actualSpanSeconds \div (7 * DAY)
    IN  IF actualSpanSeconds <= 7 * DAY
        THEN [bucketSize |-> DAY, bucketLabel |-> "daily"]
        ELSE [bucketSize |-> DAY * dayMultiplier,
              bucketLabel |-> IF dayMultiplier = 1 THEN "daily"
                              ELSE ToString(dayMultiplier) \o "daily"]

\* the daily branch labelling the multiplier without grouping by it
dailyBucket_Unscaled(actualSpanSeconds) ==
    LET dayMultiplier == IF actualSpanSeconds \div (90 * DAY) > 1
                         THEN actualSpanSeconds \div (90 * DAY) ELSE 1
    IN  IF actualSpanSeconds <= 90 * DAY
        THEN [bucketSize |-> DAY, bucketLabel |-> "daily"]
        ELSE [bucketSize |-> DAY,
              bucketLabel |-> IF dayMultiplier = 1 THEN "daily"
                              ELSE ToString(dayMultiplier) \o "daily"]

\* bucketSize and bucketLabel of the daily branch, from the actual span of the data
dailyBucket(actualSpanSeconds) ==
    LET dayMultiplier == IF actualSpanSeconds \div (90 * DAY) > 1
                         THEN actualSpanSeconds \div (90 * DAY) ELSE 1
    IN  IF actualSpanSeconds <= 90 * DAY
        THEN [bucketSize |-> DAY, bucketLabel |-> "daily"]
        ELSE [bucketSize |-> DAY * dayMultiplier,
              bucketLabel |-> IF dayMultiplier = 1 THEN "daily"
                              ELSE ToString(dayMultiplier) \o "daily"]

\* the hourly branch rounding the multiplier up instead of down
hourlyBucket_RoundUp(actualSpanSeconds) ==
    LET hourMultiplier == actualSpanSeconds \div (7 * DAY) + 1
    IN  IF actualSpanSeconds <= 7 * DAY
        THEN [bucketSize |-> HOUR, bucketLabel |-> "hourly"]
        ELSE [bucketSize |-> HOUR * hourMultiplier,
              bucketLabel |-> ToString(hourMultiplier) \o "hourly"]

\* the hourly branch without its second stage
hourlyBucket_Native(actualSpanSeconds) ==
    [bucketSize |-> HOUR, bucketLabel |-> "hourly"]

\* bucketSize and bucketLabel of the hourly branch, from the actual span of the data
hourlyBucket(actualSpanSeconds) ==
    LET hourMultiplier == actualSpanSeconds \div (7 * DAY)
    IN  IF actualSpanSeconds <= 7 * DAY
        THEN [bucketSize |-> HOUR, bucketLabel |-> "hourly"]
        ELSE [bucketSize |-> HOUR * hourMultiplier,
              bucketLabel |-> ToString(hourMultiplier) \o "hourly"]

\* max_time - min_time of SELECT MIN(bucket), MAX(bucket)
ActualSpan(rows) == MaxOf({r.bucket : r \in rows}) - MinOf({r.bucket : r \in rows})

\* !rangeResult.min_time || !rangeResult.max_time: NULL and 0 are both falsy
NoRange(rows) ==
    \/ rows = {}
    \/ MinOf({r.bucket : r \in rows}) = 0
    \/ MaxOf({r.bucket : r \in rows}) = 0

\* getTraffic(sinceDays) of src/src/stats.ts
getTraffic(sinceDays) ==
    LET since == now - sinceDays * DAY
        data10 == GroupBy(InRange(image_stats_10min, since), 1)
        daily == InRange(image_stats_daily, since)
        hourly == InRange(image_stats, since)
    IN  IF sinceDays <= 1 /\ hasData(data10)
        THEN [granularity |-> "10min", data |-> data10]
        ELSE IF sinceDays > 30
        THEN IF NoRange(daily)
             THEN [granularity |-> "daily", data |-> <<>>]
             ELSE LET b == dailyBucket(ActualSpan(daily))
                  IN  [granularity |-> b.bucketLabel, data |-> GroupBy(daily, b.bucketSize)]
        ELSE IF NoRange(hourly)
             THEN [granularity |-> "hourly", data |-> <<>>]
             ELSE LET b == hourlyBucket(ActualSpan(hourly))
                  IN  [granularity |-> b.bucketLabel, data |-> GroupBy(hourly, b.bucketSize)]

\* options of the windowed getTraffic: none, or an explicit startTime/endTime
NoOptions == <<>>
Window(s, e) == [startTime |-> s, endTime |-> e]
Windows ==
    {Window(StartTime - HOUR, StartTime + HOUR),
     Window(now - 20 * DAY, now),
     Window(now - 200 * DAY, now - DAY)}

\* getTraffic(sinceDays, options) of the windowed revision (src/unnamed/part_002)
getTrafficOpts(sinceDays, options) ==
    LET since == IF "startTime" \in DOMAIN options THEN options.startTime
                 ELSE now - sinceDays * DAY
        end == IF "endTime" \in DOMAIN options THEN options.endTime ELSE now
        spanSeconds == end - since
        data10 == GroupBy(InWindow(image_stats_10min, since, end), 1)
    IN  \* spanDays <= 1, spanDays <= 30 with spanDays = spanSeconds / 86400
        IF spanSeconds <= DAY /\ hasData(data10)
        THEN [granularity |-> "10min", data |-> data10]
        ELSE IF spanSeconds <= 30 * DAY
        THEN [granularity |-> "hourly", data |-> GroupBy(InWindow(image_stats, since, end), 1)]
        ELSE [granularity |-> "daily", data |-> GroupBy(InWindow(image_stats_daily, since, end), 1)]

UnchangedStore ==
    UNCHANGED <<now, image_stats_10min, image_stats, image_stats_daily, lastCleanup,
                hitLog, incLog, nTicks, pc, frame, dashboard, slack>>

GetTotalHits(sinceDays) ==
    /\ res = NoResult
    /\ res' = [op |-> "getTotalHits", sinceDays |-> sinceDays, out |-> getTotalHits(sinceDays)]
    /\ UnchangedStore

GetTopImages(sinceDays, limit) ==
    /\ res = NoResult
    /\ \E out \in getTopImages(sinceDays, limit) :
          res' = [op |-> "getTopImages", sinceDays |-> sinceDays, limit |-> limit, out |-> out]
    /\ UnchangedStore

GetTraffic(sinceDays) ==
    /\ res = NoResult
    /\ res' = [op |-> "getTraffic", sinceDays |-> sinceDays, out |-> getTraffic(sinceDays)]
    /\ UnchangedStore

GetStats(imageKey, sinceDays) ==
    /\ res = NoResult
    /\ res' = [op |-> "getStats", imageKey |-> imageKey, sinceDays |-> sinceDays,
               out |-> getStats(imageKey, sinceDays)]
    /\ UnchangedStore

GetTrafficOpts(sinceDays, options) ==
    /\ res = NoResult
    /\ res' = [op |-> "getTrafficOpts", sinceDays |-> sinceDays, options |-> options,
               out |-> getTrafficOpts(sinceDays, options)]
    /\ UnchangedStore

\* the handler returns Response.json(...) and the next request is taken
Respond ==
    /\ res # NoResult
    /\ res' = NoResult
    /\ UnchangedStore

----------------------------------------------------------------------------
(* recordHit statement by statement: several request contexts (processes   *)
(* sharing the database file) interleave at the granularity of one SQL     *)
(* statement, which SQLite runs atomically.                                *)

Started == BagCardinality(hitLog) + Cardinality({c \in Contexts : pc[c] # "idle"})

UnchangedClock == UNCHANGED <<now, nTicks, res, dashboard, slack>>

\* const now = Math.floor(Date.now() / 1000)
Begin(c, imageKey) ==
    /\ pc[c] = "idle"
    /\ Started < MaxConcHits
    /\ frame' = [frame EXCEPT ![c] = [imageKey |-> imageKey, now |-> now]]
    /\ pc' = [pc EXCEPT ![c] = "increment10Min"]
    /\ UNCHANGED <<image_stats_10min, image_stats, image_stats_daily, lastCleanup,
                   hitLog, incLog>>
    /\ UnchangedClock

\* increment10MinStmt.run(imageKey, bucket10Min)
Increment10Min(c) ==
    LET bucket10Min == alignDown(frame[c].now, TEN_MINUTES)
    IN  /\ pc[c] = "increment10Min"
        /\ image_stats_10min' = Upsert(image_stats_10min, frame[c].imageKey, bucket10Min)
        /\ incLog' = incLog (+) SetToBag({<<"10min", frame[c].imageKey, bucket10Min>>})
        /\ pc' = [pc EXCEPT ![c] = "incrementHour"]
        /\ UNCHANGED <<image_stats, image_stats_daily, lastCleanup, hitLog, frame>>
        /\ UnchangedClock

\* incrementHourStmt.run(imageKey, bucketHour)
IncrementHour(c) ==
    LET bucketHour == alignDown(frame[c].now, HOUR)
    IN  /\ pc[c] = "incrementHour"
        /\ image_stats' = Upsert(image_stats, frame[c].imageKey, bucketHour)
        /\ incLog' = incLog (+) SetToBag({<<"hour", frame[c].imageKey, bucketHour>>})
        /\ pc' = [pc EXCEPT ![c] = "incrementDay"]
        /\ UNCHANGED <<image_stats_10min, image_stats_daily, lastCleanup, hitLog, frame>>
        /\ UnchangedClock

\* incrementDayStmt.run(imageKey, bucketDay)
IncrementDay(c) ==
    LET bucketDay == alignDown(frame[c].now, DAY)
    IN  /\ pc[c] = "incrementDay"
        /\ image_stats_daily' = Upsert(image_stats_daily, frame[c].imageKey, bucketDay)
        /\ incLog' = incLog (+) SetToBag({<<"day", frame[c].imageKey, bucketDay>>})
        /\ pc' = [pc EXCEPT ![c] = "cleanup"]
        /\ UNCHANGED <<image_stats_10min, image_stats, lastCleanup, hitLog, frame>>
        /\ UnchangedClock

\* if (now - lastCleanup >= 600) { cleanup10MinStmt.run(cleanupBucket); lastCleanup = now }
Cleanup(c) ==
    LET dayAgo == frame[c].now - DAY
        cleanupBucket == alignDown(dayAgo, TEN_MINUTES)
    IN  /\ pc[c] = "cleanup"
        /\ IF shouldCleanup(frame[c].now, lastCleanup)
           THEN /\ image_stats_10min' = cleanup10MinStmt(image_stats_10min, cleanupBucket)
                /\ lastCleanup' = frame[c].now
                /\ incLog' = Forget(incLog, Swept(image_stats_10min, frame[c].now))
           ELSE UNCHANGED <<image_stats_10min, lastCleanup, incLog>>
        /\ hitLog' = hitLog (+) SetToBag({<<frame[c].imageKey, frame[c].now>>})
        /\ pc' = [pc EXCEPT ![c] = "idle"]
        /\ UNCHANGED <<image_stats, image_stats_daily, frame>>
        /\ UnchangedClock

ConcNext ==
    \/ \E d \in Deltas : Tick(d)
    \/ \E c \in Contexts, k \in Keys : Begin(c, k)
    \/ \E c \in Contexts : Increment10Min(c)
    \/ \E c \in Contexts : IncrementHour(c)
    \/ \E c \in Contexts : IncrementDay(c)
    \/ \E c \in Contexts : Cleanup(c)

ConcSpec == Init /\ [][ConcNext]_vars

----------------------------------------------------------------------------
(* GET /api/stats/traffic as the route of src/src/index.ts handles it: the query  *)
(* parameters are taken as they come and handed to getTraffic.                    *)

\* url.searchParams.get(...) === null, told apart from every number a client sends
NoParam == -1

\* start and end as a client may send them, inverted ranges included
RangeParams == {NoParam, now - 2 * DAY, now - HOUR, now}
DaysParams == {NoParam, 0, 7, 400}

\* number of statements getTraffic(sinceDays, options) runs against the store
statementsRun(sinceDays, options) ==
    LET since == IF "startTime" \in DOMAIN options THEN options.startTime
                 ELSE now - sinceDays * DAY
        end == IF "endTime" \in DOMAIN options THEN options.endTime ELSE now
        data10 == GroupBy(InWindow(image_stats_10min, since, end), 1)
    IN  IF end - since <= DAY /\ hasData(data10) THEN 1
        ELSE IF end - since <= DAY THEN 2
        ELSE 1

\* routes["/api/stats/traffic"].GET(request)
ServeTraffic(startParam, endParam, daysParam) ==
    LET parsed == IF daysParam = NoParam THEN 7 ELSE daysParam
        safeDays == MinOf({MaxOf({parsed, 1}), 365})
        zoom == startParam # NoParam /\ endParam # NoParam
        options == IF zoom THEN Window(startParam, endParam) ELSE NoOptions
        \* spanDays = (end - start) / 86400 is not read once both options are given
        sinceDays == IF zoom THEN (endParam - startParam) \div DAY ELSE safeDays
    IN  /\ res = NoResult
        /\ res' = [op |-> "GET /api/stats/traffic", start |-> startParam, end |-> endParam,
                   days |-> daysParam, status |-> 200,
                   statements |-> statementsRun(sinceDays, options),
                   out |-> getTrafficOpts(sinceDays, options)]
        /\ UnchangedStore

ApiNext ==
    \/ \E d \in Deltas : Tick(d)
    \/ \E k \in Keys : recordHit(k)
    \/ \E a \in RangeParams, b \in RangeParams, d \in DaysParams : ServeTraffic(a, b, d)
    \/ Respond

ApiSpec == Init /\ [][ApiNext]_vars

----------------------------------------------------------------------------
(* GET /i/:key with a store that can fail: a prepared statement's run() either   *)
(* takes effect or throws (SQLITE_BUSY after the busy timeout, disk full, ...)   *)
(* leaving the table as it was. recordHit and the route have no try/catch, so    *)
(* the exception ends recordHit at the failing statement and rejects the         *)
(* handler's promise; Bun.serve has no error option and answers with its         *)
(* default 500.                                                                  *)

\* the statement of recordHit that throws, if any
Faults == {"none", "increment10Min", "incrementHour", "incrementDay", "cleanup10Min"}

\* position of a statement in recordHit
StmtOrder(f) ==
    IF f = "increment10Min" THEN 1
    ELSE IF f = "incrementHour" THEN 2
    ELSE IF f = "incrementDay" THEN 3
    ELSE IF f = "cleanup10Min" THEN 4 ELSE 5

\* request.params.key values; R2_PUBLIC_URL as read from the environment
RouteKeys == Keys \cup {""}
R2Urls == {"", "https://cdn.example"}

HitsAt(table, k, b) == SumHits({r \in table : r.image_key = k /\ r.bucket = b})

\* routes["/i/:key"].GET(request)
ServeImage(imageKey, R2_PUBLIC_URL, fault) ==
    LET bucket10Min == alignDown(now, TEN_MINUTES)
        bucketHour == alignDown(now, HOUR)
        bucketDay == alignDown(now, DAY)
        ran(stmt) == StmtOrder(stmt) < StmtOrder(fault)
        written == IF ran("increment10Min")
                   THEN Upsert(image_stats_10min, imageKey, bucket10Min)
                   ELSE image_stats_10min
        sweep == shouldCleanup(now, lastCleanup)
        dayAgo == now - DAY
        cleanupBucket == alignDown(dayAgo, TEN_MINUTES)
        swept == ran("cleanup10Min") /\ sweep
        done(stmt, e) == IF ran(stmt) THEN {e} ELSE {}
        logged == incLog (+) SetToBag(
                      done("increment10Min", <<"10min", imageKey, bucket10Min>>)
                      \cup done("incrementHour", <<"hour", imageKey, bucketHour>>)
                      \cup done("incrementDay", <<"day", imageKey, bucketDay>>))
        was == [fine |-> HitsAt(image_stats_10min, imageKey, bucket10Min),
                hour |-> HitsAt(image_stats, imageKey, bucketHour),
                day |-> HitsAt(image_stats_daily, imageKey, bucketDay)]
        Answer(status, threw) ==
            [op |-> "GET /i/:key", key |-> imageKey, r2 |-> R2_PUBLIC_URL, fault |-> fault,
             was |-> was, status |-> status, threw |-> threw]
    IN  /\ res = NoResult
        /\ BagCardinality(hitLog) < MaxHits
        /\ IF imageKey = ""
           THEN \* if (!imageKey) return new Response("Not found", { status: 404 })
                /\ fault = "none"
                /\ res' = Answer(404, FALSE)
                /\ UnchangedStore
           ELSE /\ fault = "cleanup10Min" => sweep
                /\ image_stats_10min' =
                      IF swept THEN cleanup10MinStmt(written, cleanupBucket) ELSE written
                /\ image_stats' =
                      IF ran("incrementHour") THEN Upsert(image_stats, imageKey, bucketHour)
                      ELSE image_stats
                /\ image_stats_daily' =
                      IF ran("incrementDay") THEN Upsert(image_stats_daily, imageKey, bucketDay)
                      ELSE image_stats_daily
                /\ lastCleanup' = IF swept THEN now ELSE lastCleanup
                /\ incLog' = IF swept THEN Forget(logged, Swept(written, now)) ELSE logged
                /\ hitLog' = hitLog (+) SetToBag({<<imageKey, now>>})
                /\ res' = IF fault # "none" THEN Answer(500, TRUE)
                          ELSE IF R2_PUBLIC_URL = "" THEN Answer(500, FALSE)
                          ELSE Answer(307, FALSE)
                /\ UNCHANGED <<now, nTicks, pc, frame, dashboard, slack>>

FaultNext ==
    \/ \E d \in Deltas : Tick(d)
    \/ \E k \in RouteKeys, u \in R2Urls, f \in Faults : ServeImage(k, u, f)
    \/ Respond

FaultSpec == Init /\ [][FaultNext]_vars

----------------------------------------------------------------------------
(* The dashboard's downsample (src/unnamed/part_005). Indices are 0-based as in  *)
(* the source; a hit value is a fraction <<numerator, denominator>> in lowest    *)
(* terms, so that the mean of a chunk is exact.                                  *)

RECURSIVE Gcd(_, _)
Gcd(a, b) == IF b = 0 THEN a ELSE Gcd(b, a % b)

Fraction(n, d) == LET g == Gcd(n, d) IN <<n \div g, d \div g>>

Whole(n) == <<n, 1>>

FracAdd(x, y) == Fraction(x[1] * y[2] + y[1] * x[2], x[2] * y[2])

\* a[i] with a 0-based index
At(a, i) == a[i + 1]

\* a.slice(from, to)
slice(a, from, to) == SubSeq(a, from + 1, to)

\* timestamps.findIndex((t) => t >= minX)
findIndex(timestamps, minX) ==
    LET found == {i \in 0..Len(timestamps) - 1 : At(timestamps, i) >= minX}
    IN  IF found = {} THEN -1 ELSE MinOf(found)

\* let endIdx = timestamps.length - 1; for (i from the end) if (timestamps[i] <= maxX) { endIdx = i; break }
lastIndexWithin(timestamps, maxX) ==
    LET within == {i \in 0..Len(timestamps) - 1 : At(timestamps, i) <= maxX}
    IN  IF within = {} THEN Len(timestamps) - 1 ELSE MaxOf(within)

\* the chunk size taken for the number of chunks
bucketSizeOf_MaxPoints(sliceLen, maxPoints) == maxPoints

\* Math.ceil(sliceLen / maxPoints)
bucketSizeOf(sliceLen, maxPoints) == (sliceLen + maxPoints - 1) \div maxPoints

\* sumHits / (jEnd - i) over hSlice[i .. jEnd - 1]
RECURSIVE sumHitsOf(_, _, _)
sumHitsOf(hSlice, j, jEnd) ==
    IF j >= jEnd THEN Whole(0) ELSE FracAdd(At(hSlice, j), sumHitsOf(hSlice, j + 1, jEnd))

avgHitsOf(hSlice, i, jEnd) ==
    LET sumHits == sumHitsOf(hSlice, i, jEnd)
    IN  Fraction(sumHits[1], sumHits[2] * (jEnd - i))

NoPoints == [timestamps |-> <<>>, hits |-> <<>>]

downsample(timestamps, hits, minX, maxX, maxPoints) ==
    LET startIdx == findIndex(timestamps, minX)
        endIdx == lastIndexWithin(timestamps, maxX)
        sliceLen == endIdx - startIdx + 1
        tsSlice == slice(timestamps, startIdx, endIdx + 1)
        hSlice == slice(hits, startIdx, endIdx + 1)
        bucketSize == bucketSizeOf(sliceLen, maxPoints)
        chunks == (sliceLen + bucketSize - 1) \div bucketSize
        jEndOf(i) == IF i + bucketSize < sliceLen THEN i + bucketSize ELSE sliceLen
        dsTs == [c \in 1..chunks |-> At(tsSlice, (c - 1) * bucketSize)]
        dsHits == [c \in 1..chunks |->
                      avgHitsOf(hSlice, (c - 1) * bucketSize, jEndOf((c - 1) * bucketSize))]
    IN  IF startIdx = -1 THEN NoPoints
        ELSE IF sliceLen <= 0 THEN NoPoints
        ELSE IF sliceLen <= maxPoints THEN [timestamps |-> tsSlice, hits |-> hSlice]
        ELSE [timestamps |-> dsTs, hits |-> dsHits]

\* series the server returns: ascending bucket starts, one whole hit count each
HitCounts == {1, 2}

SeriesOf(stamps) ==
    {[timestamps |-> Ascending(stamps), hits |-> [i \in 1..Cardinality(stamps) |-> Whole(h[i])]] :
        h \in [1..Cardinality(stamps) -> HitCounts]}

DownsampleArgs ==
    {[op |-> "downsampleArgs", timestamps |-> d.timestamps, hits |-> d.hits,
      minX |-> minX, maxX |-> maxX, maxPoints |-> maxPoints] :
        d \in UNION {SeriesOf(stamps) : stamps \in SUBSET (1..MaxTs)},
        minX \in 0..MaxTs + 1, maxX \in 0..MaxTs + 1, maxPoints \in 1..MaxPoints}

DownsampleInit ==
    /\ now = StartTime
    /\ image_stats_10min = {}
    /\ image_stats = {}
    /\ image_stats_daily = {}
    /\ lastCleanup = 0
    /\ hitLog = EmptyBag
    /\ incLog = EmptyBag
    /\ nTicks = 0
    /\ res \in DownsampleArgs
    /\ pc = [c \in Contexts |-> "idle"]
    /\ frame = [c \in Contexts |-> [imageKey |-> "a", now |-> 0]]
    /\ DashboardFields
    /\ SlackFields

\* const ds = downsample(cache.timestamps, cache.hits, minX, maxX, maxPoints)
Downsample ==
    /\ res.op = "downsampleArgs"
    /\ res' = [res EXCEPT !.op = "downsample"] @@
              [out |-> downsample(res.timestamps, res.hits, res.minX, res.maxX, res.maxPoints)]
    /\ UnchangedStore

\* downsample over its own output, same window and maxPoints
Redownsample ==
    /\ res.op = "downsample"
    /\ res' = [res EXCEPT !.op = "redownsample"] @@
              [again |-> downsample(res.out.timestamps, res.out.hits,
                                    res.minX, res.maxX, res.maxPoints)]
    /\ UnchangedStore

DownsampleNext == Downsample \/ Redownsample

DownsampleSpec == DownsampleInit /\ [][DownsampleNext]_vars

----------------------------------------------------------------------------
(* The dashboard (class Dashboard of src/unnamed/part_005) in front of a server  *)
(* whose store holds the rows a fixed history of hits left behind. A fetchData   *)
(* call is suspended at its await until its responses arrive or its fetches      *)
(* reject; event handlers run to completion in between. uPlot keeps the x scale  *)
(* it is given by setScale and reports selections inside the current scale.      *)

EmptyStore == [fine |-> {}, hour |-> {}, day |-> {}, last |-> 0]

\* the store after recordHit(imageKey) at second t
Recorded(st, imageKey, t) ==
    LET written == Upsert(st.fine, imageKey, alignDown(t, TEN_MINUTES))
        sweep == shouldCleanup(t, st.last)
    IN  [fine |-> IF sweep THEN cleanup10MinStmt(written, alignDown(t - DAY, TEN_MINUTES))
                  ELSE written,
         hour |-> Upsert(st.hour, imageKey, alignDown(t, HOUR)),
         day |-> Upsert(st.day, imageKey, alignDown(t, DAY)),
         last |-> IF sweep THEN t ELSE st.last]

RECURSIVE Replay(_, _)
Replay(st, calls) ==
    IF calls = <<>> THEN st
    ELSE Replay(Recorded(st, calls[1][1], calls[1][2]), Tail(calls))

\* the hits served before the dashboard is opened at StartTime, oldest first; the
\* last one falls in the first ten minutes of its hour
SeedCalls ==
    << <<"a", StartTime - 200 * DAY>>, <<"a", StartTime - 20 * DAY>>,
       <<"b", StartTime - 3 * DAY>>, <<"a", StartTime - 12 * HOUR>>,
       <<"a", alignDown(StartTime, HOUR) + 60>> >>

Stores == {EmptyStore, Replay(EmptyStore, SeedCalls)}

\* one log entry per increment of a live row
LiveLog(st) ==
    LET tagged == {<<"10min", r>> : r \in st.fine} \cup {<<"hour", r>> : r \in st.hour}
                  \cup {<<"day", r>> : r \in st.day}
    IN  [e \in {<<x[1], x[2].image_key, x[2].bucket>> : x \in tagged} |->
            (CHOOSE x \in tagged : <<x[1], x[2].image_key, x[2].bucket>> = e)[2].hits]

\* three of the buttons of the time selector (1, 7, 30, 90, 365), one for each
\* granularity the server answers with
DayButtons == {1, 7, 365}

\* where a drag on the chart can start and end
SelectPoints ==
    {StartTime - 25 * DAY, StartTime - 15 * DAY, StartTime - 5 * DAY,
     StartTime - 2 * DAY, StartTime - 24 * HOUR, StartTime - 20 * HOUR,
     StartTime - 10 * HOUR, StartTime - 2 * HOUR}

NoEntry == [granularity |-> NoGranularity]
NoForce == [force |-> "none"]

\* const minSpan = 1.5 * 86400
minSpan == 129600

\* this.chartEl.clientWidth || 600
clientWidth == 600

\* Math.min(width, 800)
maxPointsOf(width) == IF width < 800 THEN width ELSE 800

\* the coarsest slot tried first
lodPriority_CoarseFirst == <<"daily", "hourly", "10min">>

\* const lodPriority: Granularity[] = ["10min", "hourly", "daily"]
lodPriority == <<"10min", "hourly", "daily">>

\* the thresholds taken as strict bounds
getGranularityForRange_Strict(start, end) ==
    IF end - start < DAY THEN "10min"
    ELSE IF end - start < 30 * DAY THEN "hourly"
    ELSE "daily"

\* spanDays = (end - start) / 86400: <= 1 "10min", <= 30 "hourly", else "daily"
getGranularityForRange(start, end) ==
    IF end - start <= DAY THEN "10min"
    ELSE IF end - start <= 30 * DAY THEN "hourly"
    ELSE "daily"

getBestCacheForRange(cache, minX, maxX) ==
    LET populated == {i \in 1..Len(lodPriority) : lodPriority[i] \in DOMAIN cache}
        containing == {i \in populated : /\ cache[lodPriority[i]].range.start <= minX
                                         /\ cache[lodPriority[i]].range.end >= maxX}
    IN  IF containing # {} THEN cache[lodPriority[MinOf(containing)]]
        ELSE IF populated # {} THEN cache[lodPriority[MinOf(populated)]]
        ELSE NoEntry

\* the span below minSpan widened around its centre, both ends floored
Widened(min, max) ==
    IF max - min < minSpan
    THEN [min |-> min + (max - min - minSpan) \div 2,
          max |-> min + (max - min + minSpan) \div 2]
    ELSE [min |-> min, max |-> max]

\* the fields renderCurrentViewport leaves behind
renderCurrentViewport(ch, cache, active, forceRange) ==
    LET minX == IF forceRange # NoForce THEN forceRange.min ELSE ch.min
        maxX == IF forceRange # NoForce THEN forceRange.max ELSE ch.max
        best == getBestCacheForRange(cache, minX, maxX)
        ds == downsample(best.timestamps, best.hits, minX, maxX, maxPointsOf(clientWidth))
    IN  IF ch = NoChart THEN [chart |-> ch, activeGranularity |-> active]
        ELSE IF best = NoEntry THEN [chart |-> ch, activeGranularity |-> active]
        ELSE IF ds.timestamps = <<>> THEN [chart |-> ch, activeGranularity |-> best.granularity]
        ELSE [chart |-> [data |-> ds, min |-> minX, max |-> maxX],
              activeGranularity |-> best.granularity]

\* new uPlot(opts, [timestamps, hits], el): the x scale is the data range, widened by opts.scales.x.range
initChart(timestamps, hits) ==
    LET w == Widened(timestamps[1], timestamps[Len(timestamps)])
    IN  [data |-> [timestamps |-> timestamps, hits |-> hits], min |-> w.min, max |-> w.max]

transformTraffic(traffic) ==
    [timestamps |-> [i \in 1..Len(traffic.data) |-> traffic.data[i].bucket],
     hits |-> [i \in 1..Len(traffic.data) |-> Whole(traffic.data[i].hits)]]

\* an assignment that keeps the entry a slot already holds
updateCache_KeepOld(cache, traffic) ==
    LET t == transformTraffic(traffic)
        gran == traffic.granularity
    IN  cache @@ (gran :> [granularity |-> gran,
                           range |-> [start |-> t.timestamps[1],
                                      end |-> t.timestamps[Len(t.timestamps)]],
                           timestamps |-> t.timestamps, hits |-> t.hits])

\* this.lodCache[gran] = { granularity, range: { start: first, end: last }, timestamps, hits }
\* of updateCache, for a series that is not empty
updateCache(cache, traffic) ==
    LET t == transformTraffic(traffic)
        gran == traffic.granularity
    IN  (gran :> [granularity |-> gran,
                  range |-> [start |-> t.timestamps[1],
                             end |-> t.timestamps[Len(t.timestamps)]],
                  timestamps |-> t.timestamps, hits |-> t.hits]) @@ cache

\* a trafficUrl that never carries the window
trafficUrl_DaysOnly(d, range) == [days |-> d]

\* let trafficUrl = `/api/stats/traffic?days=${this.days}`; if (this.currentRange)
\* trafficUrl = `/api/stats/traffic?start=${...start}&end=${...end}`: the query parameters
trafficUrl(d, range) ==
    IF range # NullRange THEN [start |-> range.start, end |-> range.end]
    ELSE [days |-> d]

\* GET /api/stats/traffic as fetchData asks for it
Serve(f) ==
    IF "start" \in DOMAIN f.request
    THEN getTrafficOpts((f.request.end - f.request.start) \div DAY,
                        Window(f.request.start, f.request.end))
    ELSE getTrafficOpts(MinOf({MaxOf({f.request.days, 1}), 365}), NoOptions)

\* GET /api/stats/overview?days=: the counters of the panel (the list of top images
\* is left out)
ServeOverview(f) ==
    LET safeDays == MinOf({MaxOf({f.days, 1}), 365})
    IN  [totalHits |-> getTotalHits(safeDays), uniqueImages |-> getUniqueImages(safeDays)]

\* the dashboard as its constructor leaves it: days from the URL, the first fetch in flight
DashInit ==
    /\ now = StartTime
    /\ \E st \in Stores :
          /\ image_stats_10min = st.fine
          /\ image_stats = st.hour
          /\ image_stats_daily = st.day
          /\ lastCleanup = st.last
          /\ hitLog = IF st = EmptyStore THEN EmptyBag
                      ELSE SetToBag({SeedCalls[i] : i \in 1..Len(SeedCalls)})
          /\ incLog = LiveLog(st)
    /\ nTicks = 0
    /\ res = NoResult
    /\ pc = [c \in Contexts |-> "idle"]
    /\ frame = [c \in Contexts |-> [imageKey |-> "a", now |-> 0]]
    /\ days \in DayButtons
    /\ overview = NoOverview
    /\ consoleErrors = {}
    /\ lastApplied = NoRequest
    /\ chart = NoChart
    /\ abortController = 1
    /\ originalRange = NullRange
    /\ currentRange = NullRange
    /\ lodCache = <<>>
    /\ activeGranularity = NoGranularity
    /\ isLoading = TRUE
    /\ pending = {[id |-> 1, days |-> days, range |-> NullRange, found |-> <<>>,
                   cause |-> "load", request |-> trafficUrl(days, NullRange)]}
    /\ aborted = {}
    /\ nFetch = 1
    /\ view = NoView
    /\ SlackFields

UnchangedServer ==
    UNCHANGED <<now, image_stats_10min, image_stats, image_stats_daily, lastCleanup,
                hitLog, incLog, nTicks, res, pc, frame, slack>>

\* fetchData() without this.abortController?.abort()
fetchData_NoAbort(d, range, found, cause) ==
    /\ nFetch < MaxFetches
    /\ nFetch' = nFetch + 1
    /\ aborted' = aborted
    /\ abortController' = nFetch + 1
    /\ isLoading' = TRUE
    /\ pending' = pending \cup {[id |-> nFetch + 1, days |-> d, range |-> range,
                             found |-> found, cause |-> cause,
                             request |-> trafficUrl(d, range)]}

\* fetchData() up to its await, with this.days, this.currentRange and this.lodCache as
\* it finds them (the cache is kept with the call as history):
\* the previous controller is aborted, the requests leave
fetchData(d, range, found, cause) ==
    /\ nFetch < MaxFetches
    /\ nFetch' = nFetch + 1
    /\ aborted' = IF abortController = 0 THEN aborted ELSE aborted \cup {abortController}
    /\ abortController' = nFetch + 1
    /\ isLoading' = TRUE
    /\ pending' = pending \cup {[id |-> nFetch + 1, days |-> d, range |-> range,
                             found |-> found, cause |-> cause,
                             request |-> trafficUrl(d, range)]}

\* click on a time-selector button
Click(newDays) ==
    /\ newDays # days
    /\ days' = newDays
    /\ currentRange' = NullRange
    /\ originalRange' = NullRange
    /\ lodCache' = <<>>
    /\ activeGranularity' = NoGranularity
    /\ fetchData(newDays, NullRange, <<>>, "days")
    /\ lastApplied' = NoRequest
    /\ UNCHANGED <<overview, consoleErrors, chart, view>>
    /\ UnchangedServer

\* handlePopState with event.state.days, or the days of the URL
PopState(d) ==
    /\ d # days
    /\ days' = d
    /\ currentRange' = NullRange
    /\ originalRange' = NullRange
    /\ lodCache' = <<>>
    /\ activeGranularity' = NoGranularity
    /\ fetchData(d, NullRange, <<>>, "days")
    /\ lastApplied' = NoRequest
    /\ UNCHANGED <<overview, consoleErrors, chart, view>>
    /\ UnchangedServer

\* handleSelect(u) for a drag from selMin to selMax, more than 10 pixels wide
HandleSelect(selMin, selMax) ==
    LET w == Widened(selMin, selMax)
        bestCache == getBestCacheForRange(lodCache, w.min, w.max)
        targetGran == getGranularityForRange(w.min, w.max)
        r == renderCurrentViewport(chart, lodCache, activeGranularity, w)
        fromCache == bestCache # NoEntry /\ bestCache.granularity = targetGran
    IN  /\ chart # NoChart
        /\ chart.min <= selMin /\ selMin < selMax /\ selMax <= chart.max
        /\ currentRange' = [start |-> w.min, end |-> w.max]
        /\ chart' = r.chart
        /\ activeGranularity' = r.activeGranularity
        /\ IF fromCache
           THEN UNCHANGED <<nFetch, aborted, abortController, isLoading, pending>>
           ELSE fetchData(days, [start |-> w.min, end |-> w.max], lodCache, "zoom")
        /\ view' = [by |-> "handleSelect", selMin |-> selMin, selMax |-> selMax,
                    min |-> w.min, max |-> w.max, cache |-> lodCache,
                    best |-> bestCache.granularity, shown |-> r.chart.data,
                    fetched |-> ~fromCache, applied |-> lastApplied]
        /\ UNCHANGED <<days, overview, consoleErrors, lastApplied, originalRange, lodCache>>
        /\ UnchangedServer

\* resetZoom(), the chart's dblclick listener
ResetZoom ==
    /\ chart # NoChart
    /\ currentRange' = NullRange
    /\ IF originalRange # NullRange
       THEN LET scaled == [chart EXCEPT !.min = originalRange.start, !.max = originalRange.end]
                r == renderCurrentViewport(scaled, lodCache, activeGranularity, NoForce)
            IN  /\ chart' = r.chart
                /\ activeGranularity' = r.activeGranularity
                /\ fetchData(days, NullRange, lodCache, "reset")
       ELSE UNCHANGED <<chart, activeGranularity, nFetch, aborted, abortController,
                        isLoading, pending>>
    /\ UNCHANGED <<days, overview, consoleErrors, lastApplied, originalRange, lodCache, view>>
    /\ UnchangedServer

\* handleResize
HandleResize ==
    LET r == renderCurrentViewport(chart, lodCache, activeGranularity, NoForce)
    IN  /\ chart # NoChart
        /\ chart' = r.chart
        /\ activeGranularity' = r.activeGranularity
        /\ UNCHANGED <<days, overview, consoleErrors, lastApplied, abortController, originalRange, currentRange, lodCache,
                       isLoading, pending, aborted, nFetch, view>>
        /\ UnchangedServer

\* the rest of fetchData's try block, then finally, for a call whose responses have
\* arrived with this traffic series
Apply(f, traffic) ==
    LET t == transformTraffic(traffic)
        first == t.timestamps[1]
        last == t.timestamps[Len(t.timestamps)]
        made == IF chart = NoChart THEN initChart(t.timestamps, t.hits) ELSE chart
        gran == traffic.granularity
        cached == updateCache(lodCache, traffic)
        forceRange == IF currentRange = NullRange THEN [min |-> first, max |-> last]
                      ELSE [min |-> currentRange.start, max |-> currentRange.end]
        r == renderCurrentViewport(made, cached, gran, forceRange)
    IN  /\ f \in pending
        /\ f.id \notin aborted
        /\ pending' = pending \ {f}
        /\ isLoading' = FALSE
        /\ overview' = ServeOverview(f)
        /\ IF t.timestamps = <<>>
           THEN UNCHANGED <<chart, lodCache, activeGranularity, originalRange, lastApplied>>
           ELSE /\ lodCache' = cached
                /\ lastApplied' = f.request
                /\ originalRange' = IF currentRange = NullRange
                                    THEN [start |-> first, end |-> last] ELSE originalRange
                /\ chart' = r.chart
                /\ activeGranularity' = r.activeGranularity
        /\ UNCHANGED <<days, consoleErrors, abortController, currentRange, aborted, nFetch, view>>
        /\ UnchangedServer

\* both responses of a fetchData call arrive from the server of index.ts
Settle(f) == Apply(f, Serve(f))

\* a catch block that drops the cache and the chart
Fail_Blank(f) ==
    /\ f \in pending
    /\ f.id \notin aborted
    /\ pending' = pending \ {f}
    /\ isLoading' = FALSE
    /\ consoleErrors' = consoleErrors \cup {f.id}
    /\ lodCache' = <<>>
    /\ chart' = NoChart
    /\ UNCHANGED <<days, overview, lastApplied, abortController, originalRange, currentRange,
                   activeGranularity, aborted, nFetch, view>>
    /\ UnchangedServer

\* a fetch of the call fails for another reason than an abort: catch logs, finally clears the indicator
Fail(f) ==
    /\ f \in pending
    /\ f.id \notin aborted
    /\ pending' = pending \ {f}
    /\ isLoading' = FALSE
    /\ consoleErrors' = consoleErrors \cup {f.id}
    /\ UNCHANGED <<days, overview, lastApplied, chart, abortController, originalRange, currentRange, lodCache,
                   activeGranularity, aborted, nFetch, view>>
    /\ UnchangedServer

\* finally without the signal.aborted test: an aborted call clears the indicator too
Abandon_ClearLoading(f) ==
    /\ f \in pending
    /\ f.id \in aborted
    /\ pending' = pending \ {f}
    /\ isLoading' = FALSE
    /\ UNCHANGED <<days, overview, consoleErrors, lastApplied, chart, abortController, originalRange, currentRange, lodCache,
                   activeGranularity, aborted, nFetch, view>>
    /\ UnchangedServer

\* the fetches of an aborted call reject with AbortError: nothing is applied
Abandon(f) ==
    /\ f \in pending
    /\ f.id \in aborted
    /\ pending' = pending \ {f}
    /\ UNCHANGED <<days, overview, consoleErrors, lastApplied, chart, abortController, originalRange, currentRange, lodCache,
                   activeGranularity, isLoading, aborted, nFetch, view>>
    /\ UnchangedServer

DashNext ==
    \/ \E d \in DayButtons : Click(d)
    \/ \E d \in DayButtons : PopState(d)
    \/ \E a, b \in SelectPoints : HandleSelect(a, b)
    \/ ResetZoom
    \/ HandleResize
    \/ \E f \in pending : Settle(f)
    \/ \E f \in pending : Fail(f)
    \/ \E f \in pending : Abandon(f)

DashSpec == DashInit /\ [][DashNext]_vars

----------------------------------------------------------------------------
(* The same dashboard in front of getTraffic(sinceDays) of src/src/stats.ts,    *)
(* whose answers carry the super-bucket labels. Only full-range loads are       *)
(* followed: this revision of getTraffic takes no window.                       *)

\* the stores a part of the seed history leaves behind
SeedParts == SUBSET (1..Len(SeedCalls))
Part(I) == [i \in 1..Cardinality(I) |-> SeedCalls[Ascending(I)[i]]]

LabelDays == {1, 7, 30, 365}

LabelInit ==
    /\ now = StartTime
    /\ \E I \in SeedParts :
          LET st == Replay(EmptyStore, Part(I))
          IN  /\ image_stats_10min = st.fine
              /\ image_stats = st.hour
              /\ image_stats_daily = st.day
              /\ lastCleanup = st.last
              /\ hitLog = SetToBag({SeedCalls[i] : i \in I})
              /\ incLog = LiveLog(st)
    /\ nTicks = 0
    /\ res = NoResult
    /\ pc = [c \in Contexts |-> "idle"]
    /\ frame = [c \in Contexts |-> [imageKey |-> "a", now |-> 0]]
    /\ days \in LabelDays
    /\ overview = NoOverview
    /\ consoleErrors = {}
    /\ lastApplied = NoRequest
    /\ chart = NoChart
    /\ abortController = 1
    /\ originalRange = NullRange
    /\ currentRange = NullRange
    /\ lodCache = <<>>
    /\ activeGranularity = NoGranularity
    /\ isLoading = TRUE
    /\ pending = {[id |-> 1, days |-> days, range |-> NullRange, found |-> <<>>,
                   cause |-> "load", request |-> trafficUrl(days, NullRange)]}
    /\ aborted = {}
    /\ nFetch = 1
    /\ view = NoView
    /\ SlackFields

\* both responses of a full-range call arrive from getTraffic(safeDays) of stats.ts
SettleStats(f) ==
    /\ f \in pending
    /\ "days" \in DOMAIN f.request
    /\ Apply(f, getTraffic(MinOf({MaxOf({f.request.days, 1}), 365})))

LabelNext ==
    \/ \E d \in LabelDays : Click(d)
    \/ \E f \in pending : SettleStats(f)
    \/ \E f \in pending : Abandon(f)
    \/ HandleResize

LabelSpec == LabelInit /\ [][LabelNext]_vars

----------------------------------------------------------------------------
(* processSlackFiles (src/src/index.ts): one Slack file message, its files      *)
(* processed in parallel, every callSlackAPI call and every file step free to   *)
(* fail. A continuation of the function runs as soon as the promise it awaits   *)
(* settles, before any further response is delivered.                           *)

MaxFiles == 2

LoadingReaction == "spinny_fox"
SuccessReaction == "yay-still"
ErrorReaction == "rac-concern"

\* what each callSlackAPI call of processSlackFiles asks Slack to do
SlackCall ==
    [loadingReaction |-> [method |-> "reactions.add", name |-> LoadingReaction],
     removeLoading   |-> [method |-> "reactions.remove", name |-> LoadingReaction],
     addSuccess      |-> [method |-> "reactions.add", name |-> SuccessReaction],
     postMessage     |-> [method |-> "chat.postMessage", name |-> "urls"],
     addError        |-> [method |-> "reactions.add", name |-> ErrorReaction],
     catchError      |-> [method |-> "reactions.add", name |-> ErrorReaction]]

\* callSlackAPI(method, params): the request is sent, the promise is pending
callSlackAPI(calls, issued) == [c \in issued |-> "pending"] @@ calls

\* a file goes through download, optimizeImage and uploadImageToR2
AfterStep(step) ==
    CASE step = "download" -> "optimize"
      [] step = "optimize" -> "upload"
      [] step = "upload" -> "url"

FileSettled(i) == filePromises[i] \in {"url", "null"}

\* const urls = results.filter((url) => url !== null)
urls == {i \in DOMAIN filePromises : filePromises[i] = "url"}

Issued(calls) == DOMAIN calls \ {"loadingReaction"}

\* the promise processSlackFiles is suspended at has settled
Resumable ==
    \/ slackPc = "files" /\ \A i \in DOMAIN filePromises : FileSettled(i)
    \/ slackPc = "loading" /\ slackCalls["loadingReaction"] # "pending"
    \/ /\ slackPc = "apiCalls"
       /\ \/ \E c \in Issued(slackCalls) : slackCalls[c] = "rejected"
          \/ \A c \in Issued(slackCalls) : slackCalls[c] = "fulfilled"
    \/ slackPc = "catch" /\ slackCalls["catchError"] # "pending"

UnchangedSite ==
    UNCHANGED <<now, image_stats_10min, image_stats, image_stats_daily, lastCleanup,
                hitLog, incLog, nTicks, res, pc, frame, dashboard>>

\* handleSlackEvent calls processSlackFiles(event) for a message with n files
ProcessSlackFiles(n) ==
    /\ slackPc = "idle"
    /\ slackCalls' = callSlackAPI(slackCalls, {"loadingReaction"})
    /\ filePromises' = [i \in 1..n |-> "download"]
    /\ slackPc' = "files"
    /\ UNCHANGED <<reactions, reactionLog, thread>>
    /\ UnchangedSite

\* one step of one file succeeds or throws; a throw makes the file's result null
FileStep(i, ok) ==
    /\ ~Resumable
    /\ i \in DOMAIN filePromises
    /\ ~FileSettled(i)
    /\ filePromises' = [filePromises EXCEPT ![i] = IF ok THEN AfterStep(@) ELSE "null"]
    /\ UNCHANGED <<slackPc, slackCalls, reactions, reactionLog, thread>>
    /\ UnchangedSite

\* Slack accepts reactions.add of a reaction the bot has not added and
\* reactions.remove of one it has
Acceptable(call) ==
    CASE call.method = "reactions.add" -> call.name \notin reactions
      [] call.method = "reactions.remove" -> call.name \in reactions
      [] OTHER -> TRUE

\* Slack answers a call: data.ok, or an error that callSlackAPI throws
SlackResponds(c, ok) ==
    /\ ~Resumable
    /\ c \in DOMAIN slackCalls
    /\ slackCalls[c] = "pending"
    /\ ok => Acceptable(SlackCall[c])
    /\ slackCalls' = [slackCalls EXCEPT ![c] = IF ok THEN "fulfilled" ELSE "rejected"]
    /\ LET call == SlackCall[c]
       IN  /\ reactions' = IF ~ok THEN reactions
                           ELSE IF call.method = "reactions.add" THEN reactions \cup {call.name}
                           ELSE IF call.method = "reactions.remove" THEN reactions \ {call.name}
                           ELSE reactions
           /\ reactionLog' = IF ok /\ call.method = "reactions.add"
                             THEN Append(reactionLog, call.name) ELSE reactionLog
           /\ thread' = IF ok /\ call.method = "chat.postMessage" THEN thread + 1 ELSE thread
    /\ UNCHANGED <<slackPc, filePromises>>
    /\ UnchangedSite

\* catch (error): reactions.add rac-concern, its own failure only logged
Catch ==
    /\ slackCalls' = callSlackAPI(slackCalls, {"catchError"})
    /\ slackPc' = "catch"

\* the function continues after the await it was suspended at
Resume ==
    /\ Resumable
    /\ CASE slackPc = "files" ->
              /\ slackPc' = "loading"
              /\ UNCHANGED slackCalls
         [] slackPc = "loading" ->
              IF slackCalls["loadingReaction"] = "rejected"
              THEN Catch
              ELSE /\ slackCalls' = callSlackAPI(slackCalls,
                                        IF urls # {}
                                        THEN {"removeLoading", "addSuccess", "postMessage"}
                                        ELSE {"removeLoading", "addError"})
                   /\ slackPc' = "apiCalls"
         [] slackPc = "apiCalls" ->
              IF \E c \in Issued(slackCalls) : slackCalls[c] = "rejected"
              THEN Catch
              ELSE /\ slackPc' = "done"
                   /\ UNCHANGED slackCalls
         [] slackPc = "catch" ->
              /\ slackPc' = "done"
              /\ UNCHANGED slackCalls
    /\ UNCHANGED <<filePromises, reactions, reactionLog, thread>>
    /\ UnchangedSite

\* calls still in flight when Promise.all rejected are answered after the function returned
SlackNext ==
    \/ \E n \in 1..MaxFiles : ProcessSlackFiles(n)
    \/ \E i \in 1..MaxFiles, ok \in BOOLEAN : FileStep(i, ok)
    \/ \E c \in DOMAIN SlackCall, ok \in BOOLEAN : SlackResponds(c, ok)
    \/ Resume

SlackSpec == Init /\ [][SlackNext]_vars

----------------------------------------------------------------------------
(* alignDown on its own: the timestamps sit around the period boundaries *)

Periods == {TEN_MINUTES, HOUR, DAY}

AlignTimes ==
    LET bases == {0, TEN_MINUTES, HOUR, DAY, StartTime, StartTime + DAY - HOUR}
    IN  {t \in {b + o : b \in bases, o \in -MaxOffset..MaxOffset} : t >= 0}

AlignInit ==
    /\ now = StartTime
    /\ image_stats_10min = {}
    /\ image_stats = {}
    /\ image_stats_daily = {}
    /\ lastCleanup = 0
    /\ hitLog = EmptyBag
    /\ incLog = EmptyBag
    /\ nTicks = 0
    /\ res \in {[op |-> "args", t |-> t, period |-> p] : t \in AlignTimes, p \in Periods}
    /\ pc = [c \in Contexts |-> "idle"]
    /\ frame = [c \in Contexts |-> [imageKey |-> "a", now |-> 0]]
    /\ DashboardFields
    /\ SlackFields

\* const bucket = now - (now % period)
Align ==
    /\ res.op = "args"
    /\ res' = [op |-> "alignDown", t |-> res.t, period |-> res.period,
               out |-> alignDown(res.t, res.period)]
    /\ UnchangedStore

\* the same expression applied to a value it produced
Realign ==
    /\ res.op = "alignDown"
    /\ res' = [op |-> "realign", t |-> res.t, period |-> res.period, out |-> res.out,
               again |-> alignDown(res.out, res.period)]
    /\ UnchangedStore

AlignNext == Align \/ Realign

AlignSpec == AlignInit /\ [][AlignNext]_vars

----------------------------------------------------------------------------
Next ==
    \/ \E d \in Deltas : Tick(d)
    \/ \E k \in Keys : recordHit(k)
    \/ \E d \in Days : GetTotalHits(d)
    \/ \E d \in Days, l \in Limits : GetTopImages(d, l)
    \/ \E d \in Days : GetTraffic(d)
    \/ \E d \in Days : GetTrafficOpts(d, NoOptions)
    \/ \E w \in Windows : GetTrafficOpts(7, w)
    \/ \E k \in Keys, d \in Days : GetStats(k, d)
    \/ Respond

Spec == Init /\ [][Next]_vars

----------------------------------------------------------------------------
(* Properties *)

RECURSIVE SeqSumHits(_)
SeqSumHits(data) ==
    IF data = <<>> THEN 0 ELSE data[1].hits + SeqSumHits(Tail(data))

Buckets(data) == {data[i].bucket : i \in 1..Len(data)}

\* number of recordHit(k) calls whose timestamp has bucket b at the given period
Calls(k, b, period) ==
    LET E == {e \in BagToSet(hitLog) : e[1] = k /\ alignDown(e[2], period) = b}
        RECURSIVE total(_)
        total(S) == IF S = {} THEN 0
                    ELSE LET e == CHOOSE x \in S : TRUE
                         IN CopiesIn(e, hitLog) + total(S \ {e})
    IN  total(E)

RowsOf(table, k, b) == {r \in table : r.image_key = k /\ r.bucket = b}

\* C1: N recordHit(k) calls in one 10-minute window leave exactly one row for k and
\* that window in the fine table with hits = N (until retention removes it), and,
\* when they are all of k's calls in that hour (day), exactly one medium (coarse)
\* row with hits = N.
C1_SameWindowAccumulates ==
    \A e \in BagToSet(hitLog) :
        LET k == e[1]
            w == alignDown(e[2], TEN_MINUTES)
            h == alignDown(e[2], HOUR)
            d == alignDown(e[2], DAY)
            N == Calls(k, w, TEN_MINUTES)
        IN  /\ RowsOf(image_stats_10min, k, w) =
                  IF w >= alignDown(lastCleanup - DAY, TEN_MINUTES)
                  THEN {Row(k, w, N)} ELSE {}
            /\ Calls(k, h, HOUR) = N => RowsOf(image_stats, k, h) = {Row(k, h, N)}
            /\ Calls(k, d, DAY) = N => RowsOf(image_stats_daily, k, d) = {Row(k, d, N)}

\* two calls at different instants of one window; all three rows hold hits = 2
C1_Witness ==
    \E e1, e2 \in BagToSet(hitLog) :
        /\ e1[1] = e2[1] /\ e1[2] # e2[2]
        /\ alignDown(e1[2], TEN_MINUTES) = alignDown(e2[2], TEN_MINUTES)
        /\ Row(e1[1], alignDown(e1[2], TEN_MINUTES), 2) \in image_stats_10min
        /\ Row(e1[1], alignDown(e1[2], HOUR), 2) \in image_stats
        /\ Row(e1[1], alignDown(e1[2], DAY), 2) \in image_stats_daily

TableOf(tag) ==
    IF tag = "10min" THEN image_stats_10min
    ELSE IF tag = "hour" THEN image_stats ELSE image_stats_daily

\* C2: under every interleaving of the statements of concurrent recordHit calls, each
\* live row's hits equals the number of increments completed for its (key, bucket)
\* pair, every pair incremented has exactly one row, and so no increment changes the
\* row of another key or bucket.
C2_NoLostIncrement ==
    \A tag \in {"10min", "hour", "day"} :
        /\ \A r \in TableOf(tag) :
              /\ <<tag, r.image_key, r.bucket>> \in BagToSet(incLog)
              /\ r.hits = CopiesIn(<<tag, r.image_key, r.bucket>>, incLog)
        /\ \A e \in BagToSet(incLog) :
              e[1] = tag => Cardinality(RowsOf(TableOf(tag), e[2], e[3])) = 1

\* two contexts are inside recordHit at once, both have run their 10-minute increment
\* on the same key and bucket, and the row counts both
C2_Witness ==
    /\ \A c \in Contexts : pc[c] \notin {"idle", "increment10Min"}
    /\ frame[1].imageKey = frame[2].imageKey
    /\ frame[1].now # frame[2].now
    /\ \E r \in image_stats_10min :
          /\ r.hits = 2
          /\ \A c \in Contexts : r.bucket = alignDown(frame[c].now, TEN_MINUTES)

\* C3: right after a sweep at time now, no fine row is older than
\* alignDown(now - 24h, 600).
C3_SweepLeavesNoOldRow ==
    lastCleanup = now =>
        \A r \in image_stats_10min : r.bucket >= alignDown(now - DAY, TEN_MINUTES)

\* a sweep has just run and a hit older than its cutoff had been recorded
C3_Witness ==
    /\ lastCleanup = now
    /\ \E e \in BagToSet(hitLog) :
          alignDown(e[2], TEN_MINUTES) < alignDown(now - DAY, TEN_MINUTES)
    /\ image_stats_10min # {}

\* C4: getTotalHits(30) equals the sum of the hits of the series getTraffic(30)
\* returns in the same state, for both revisions of getTraffic.
C4_TotalEqualsTrafficSum ==
    /\ getTotalHits(30) = SeqSumHits(getTraffic(30).data)
    /\ getTotalHits(30) = SeqSumHits(getTrafficOpts(30, NoOptions).data)

\* a 30-day total has been asked for while the store holds rows inside and outside
\* the 30 days
C4_Witness ==
    /\ res.op = "getTotalHits" /\ res.sinceDays = 30 /\ res.out >= 1
    /\ Len(getTraffic(30).data) >= 1
    /\ \E r \in image_stats : r.bucket < now - 30 * DAY

\* hits of key k recorded in hourly buckets at or after since
HitsInRange(k, since) ==
    LET E == {e \in BagToSet(hitLog) : e[1] = k /\ alignDown(e[2], HOUR) >= since}
        RECURSIVE total(_)
        total(S) == IF S = {} THEN 0
                    ELSE LET e == CHOOSE x \in S : TRUE
                         IN CopiesIn(e, hitLog) + total(S \ {e})
    IN  total(E)

\* keys by total descending, ties by key in lexical order
RECURSIVE Ranked(_, _)
Ranked(ks, since) ==
    IF ks = {} THEN <<>>
    ELSE LET best == CHOOSE k \in ks : \A o \in ks :
                        \/ HitsInRange(k, since) > HitsInRange(o, since)
                        \/ /\ HitsInRange(k, since) = HitsInRange(o, since)
                           /\ KeyRank[k] <= KeyRank[o]
         IN  <<[image_key |-> best, total |-> HitsInRange(best, since)]>>
             \o Ranked(ks \ {best}, since)

\* C5: getTopImages returns one entry per key with total = the key's hits in the
\* range, by total descending, ties by key in lexical order, at most limit entries.
C5_TopImagesRanked ==
    res.op = "getTopImages" =>
        LET since == now - res.sinceDays * DAY
            full == Ranked({k \in Keys : HitsInRange(k, since) > 0}, since)
        IN  res.out = SubSeq(full, 1, IF res.limit < Len(full) THEN res.limit ELSE Len(full))

\* C6: getTopImages never double counts: each reported total is the number of
\* recordHit calls for that key in the range.
C6_TopImagesNoDoubleCount ==
    res.op = "getTopImages" =>
        \A i \in 1..Len(res.out) :
            res.out[i].total = HitsInRange(res.out[i].image_key, now - res.sinceDays * DAY)

IsTraffic == res.op \in {"getTraffic", "getTrafficOpts"}

\* start, end and length in seconds of the range the last traffic query asked for
ReqSince ==
    IF res.op = "getTrafficOpts" /\ "startTime" \in DOMAIN res.options
    THEN res.options.startTime ELSE now - res.sinceDays * DAY
ReqEnd ==
    IF res.op = "getTrafficOpts" /\ "endTime" \in DOMAIN res.options
    THEN res.options.endTime ELSE now
ReqSpan == ReqEnd - ReqSince

\* rows of a table inside the requested range
ReqRows(table) ==
    IF res.op = "getTraffic" THEN {r \in table : r.bucket >= ReqSince}
    ELSE {r \in table : r.bucket >= ReqSince /\ r.bucket <= ReqEnd}

SpanOf(rows) == MaxOf({r.bucket : r \in rows}) - MinOf({r.bucket : r \in rows})
SuperBuckets(rows, size) == {(r.bucket \div size) * size : r \in rows}

\* C7: for a requested span over 30 days getTraffic reads the coarse table, and it
\* uses multi-day super-buckets only when the actual data span exceeds 90 days: with
\* an actual span of at most 90 days the answer is "daily" with the native buckets.
C7_CoarseOnlyBeyond90Days ==
    (IsTraffic /\ ReqSpan > 30 * DAY) =>
        LET rows == ReqRows(image_stats_daily)
        IN  /\ SeqSumHits(res.out.data) = SumHits(rows)
            /\ \A b \in Buckets(res.out.data) : b % DAY = 0
            /\ res.out.granularity # "daily" => (rows # {} /\ SpanOf(rows) > 90 * DAY)
            /\ (rows # {} /\ SpanOf(rows) <= 90 * DAY) =>
                  /\ res.out.granularity = "daily"
                  /\ Buckets(res.out.data) = {r.bucket : r \in rows}

\* getTraffic(400) over data that spans between one and ten days
C7_Witness ==
    /\ res.op = "getTraffic" /\ res.sinceDays = 400
    /\ Len(res.out.data) = 2
    /\ SpanOf(image_stats_daily) <= 10 * DAY
    /\ res.out.granularity = "daily"

\* C8: for a requested span of at most one day getTraffic returns the fine series
\* when a fine row lies in the range and the medium (hourly) series otherwise; it
\* never returns an empty 10min series.
C8_FineElseMedium ==
    (IsTraffic /\ ReqSpan <= DAY) =>
        LET fineRows == ReqRows(image_stats_10min)
            mediumRows == ReqRows(image_stats)
        IN  /\ fineRows # {} =>
                  /\ res.out.granularity = "10min"
                  /\ Buckets(res.out.data) = {r.bucket : r \in fineRows}
                  /\ SeqSumHits(res.out.data) = SumHits(fineRows)
            /\ fineRows = {} =>
                  /\ res.out.granularity = "hourly"
                  /\ Buckets(res.out.data) = {r.bucket : r \in mediumRows}
                  /\ SeqSumHits(res.out.data) = SumHits(mediumRows)
            /\ ~(res.out.granularity = "10min" /\ res.out.data = <<>>)

\* a window of two hours whose fine rows retention has removed is answered from the
\* medium table
C8_Witness ==
    /\ res.op = "getTrafficOpts" /\ ReqSpan <= DAY
    /\ ReqRows(image_stats_10min) = {}
    /\ res.out.granularity = "hourly"
    /\ Len(res.out.data) > 0

\* the super-bucket rule of the medium table
HourlyRule(out, rows) ==
    /\ SeqSumHits(out.data) = SumHits(rows)
    /\ (rows # {} /\ SpanOf(rows) > 7 * DAY) =>
          Buckets(out.data) = SuperBuckets(rows, HOUR * (SpanOf(rows) \div (7 * DAY)))
    /\ (rows = {} \/ SpanOf(rows) <= 7 * DAY) =>
          /\ out.granularity = "hourly"
          /\ Buckets(out.data) = {r.bucket : r \in rows}

\* C9 (as claimed): for 1 < spanDays <= 30 getTraffic reads the medium table and, when
\* the actual data span exceeds 7 days, groups it into super-buckets of
\* floor(actualSpanDays / 7) hours; native hourly buckets otherwise.
C9_HourlySuperBuckets ==
    (IsTraffic /\ ReqSpan > DAY /\ ReqSpan <= 30 * DAY) =>
        HourlyRule(res.out, ReqRows(image_stats))

\* C9 (amended): the rule holds for getTraffic(sinceDays) of src/src/stats.ts; the
\* windowed getTraffic(sinceDays, options) answers 1 < spanDays <= 30 with the native
\* hourly buckets, labelled "hourly", whatever the actual data span.
C9_HourlySuperBucketsPerRevision ==
    /\ (res.op = "getTraffic" /\ ReqSpan > DAY /\ ReqSpan <= 30 * DAY) =>
          HourlyRule(res.out, ReqRows(image_stats))
    /\ (res.op = "getTrafficOpts" /\ ReqSpan > DAY /\ ReqSpan <= 30 * DAY) =>
          /\ res.out.granularity = "hourly"
          /\ Buckets(res.out.data) = {r.bucket : r \in ReqRows(image_stats)}
          /\ SeqSumHits(res.out.data) = SumHits(ReqRows(image_stats))

\* getTraffic(30) over data spanning 14 days or more, where a 2-hour super-bucket
\* starts at another instant than the hourly row it holds
C9_Witness ==
    /\ res.op = "getTraffic" /\ res.sinceDays = 30
    /\ ReqRows(image_stats) # {}
    /\ SpanOf(ReqRows(image_stats)) \div (7 * DAY) = 2
    /\ \E r \in ReqRows(image_stats) : r.bucket \notin Buckets(res.out.data)

\* the number N in front of unit in a label, 0 when the label is not N followed by unit
MultiplierOf(label, unit) ==
    IF \E n \in 1..99 : label = ToString(n) \o unit
    THEN CHOOSE n \in 1..99 : label = ToString(n) \o unit
    ELSE 0

\* C10: every getTraffic answer is labelled "10min", "hourly", "Nhourly", "daily" or
\* "Ndaily", and a label with a number N comes with the buckets of grouping the
\* table's rows by N hours (N days): every bucket is a multiple of N hours (days).
C10_LabelIsMultiplier ==
    IsTraffic =>
        LET g == res.out.granularity
            nh == MultiplierOf(g, "hourly")
            nd == MultiplierOf(g, "daily")
        IN  /\ g \in {"10min", "hourly", "daily"} \/ nh > 0 \/ nd > 0
            /\ nh > 0 =>
                  /\ \A b \in Buckets(res.out.data) : b % (nh * HOUR) = 0
                  /\ Buckets(res.out.data) = SuperBuckets(ReqRows(image_stats), nh * HOUR)
            /\ nd > 0 =>
                  /\ \A b \in Buckets(res.out.data) : b % (nd * DAY) = 0
                  /\ Buckets(res.out.data) = SuperBuckets(ReqRows(image_stats_daily), nd * DAY)

\* an answer labelled "2daily" whose buckets are not the daily rows' own
C10_Witness ==
    /\ IsTraffic
    /\ res.out.granularity = "2daily"
    /\ \E r \in ReqRows(image_stats_daily) : r.bucket \notin Buckets(res.out.data)

\* C13: alignDown(t, p) = t - (t mod p) is idempotent for t >= 0 and p one of 600,
\* 3600, 86400: aligning an aligned timestamp returns it unchanged.
C13_AlignDownIdempotent ==
    res.op = "realign" => res.again = res.out

\* an unaligned timestamp was moved by the first application and kept by the second
C13_Witness ==
    /\ res.op = "realign"
    /\ res.t % res.period # 0
    /\ res.out < res.t
    /\ res.out > 0

\* C14: every row recordHit wrote has a bucket start that is an exact multiple of its
\* table's period: 600 in the fine table, 3600 in the medium one, 86400 in the coarse one.
C14_BucketsAligned ==
    /\ \A r \in image_stats_10min : r.bucket % TEN_MINUTES = 0
    /\ \A r \in image_stats : r.bucket % HOUR = 0
    /\ \A r \in image_stats_daily : r.bucket % DAY = 0

\* a hit recorded at a second that is on none of the three boundaries, its rows live
C14_Witness ==
    \E e \in BagToSet(hitLog) :
        /\ e[2] % TEN_MINUTES # 0
        /\ RowsOf(image_stats_10min, e[1], alignDown(e[2], TEN_MINUTES)) # {}
        /\ RowsOf(image_stats, e[1], alignDown(e[2], HOUR)) # {}
        /\ RowsOf(image_stats_daily, e[1], alignDown(e[2], DAY)) # {}

\* every row of T has a row of T2 with its key and bucket and at least its hits
Kept(T, T2) ==
    \A r \in T : \E q \in T2 :
        q.image_key = r.image_key /\ q.bucket = r.bucket /\ q.hits >= r.hits

\* C15: in every table a row's hits is at least 1 and never decreases while the row
\* exists, and a row disappears only from the fine table, in a step that runs the
\* retention sweep, when its bucket is before that sweep's cutoff.
C15_HitsOnlyGrow ==
    [][/\ \A r \in image_stats_10min' \cup image_stats' \cup image_stats_daily' : r.hits >= 1
       /\ Kept(image_stats, image_stats')
       /\ Kept(image_stats_daily, image_stats_daily')
       /\ \A r \in image_stats_10min :
             \/ Kept({r}, image_stats_10min')
             \/ /\ lastCleanup' # lastCleanup
                /\ r.bucket < alignDown(lastCleanup' - DAY, TEN_MINUTES)]_vars

\* a fine row has grown to 2 hits over two calls at different seconds and is still there
\* after the clock moved on
C15_Witness ==
    /\ \E r \in image_stats_10min : r.hits = 2 /\ r.bucket < alignDown(now, TEN_MINUTES)
    /\ \E e1, e2 \in BagToSet(hitLog) : e1[2] < e2[2]

\* C16: the sweep runs only in a recordHit with now - lastCleanup >= 600 and then sets
\* lastCleanup to now, so two sweeps are at least 600 seconds apart, and a recordHit
\* within 600 seconds of the last sweep leaves lastCleanup alone and deletes no fine row.
C16_SweepRateLimited ==
    [][/\ lastCleanup' # lastCleanup =>
             lastCleanup' = now /\ lastCleanup' - lastCleanup >= TEN_MINUTES
       /\ (hitLog' # hitLog /\ now - lastCleanup < TEN_MINUTES) =>
             lastCleanup' = lastCleanup /\ Kept(image_stats_10min, image_stats_10min')]_vars

\* a hit recorded less than 600 seconds after a sweep of an earlier second
C16_Witness ==
    /\ lastCleanup < now
    /\ now - lastCleanup < TEN_MINUTES
    /\ \E e \in BagToSet(hitLog) : e[2] = now
    /\ \E e \in BagToSet(hitLog) : e[2] = lastCleanup

\* C17: only the fine table is pruned: no step deletes a medium or coarse row or
\* lowers its hits.
C17_OnlyFinePruned ==
    [][Kept(image_stats, image_stats') /\ Kept(image_stats_daily, image_stats_daily')]_vars

\* a sweep has removed a hit's fine row while its medium and coarse rows remain
C17_Witness ==
    \E e \in BagToSet(hitLog) :
        /\ RowsOf(image_stats_10min, e[1], alignDown(e[2], TEN_MINUTES)) = {}
        /\ RowsOf(image_stats, e[1], alignDown(e[2], HOUR)) # {}
        /\ RowsOf(image_stats_daily, e[1], alignDown(e[2], DAY)) # {}
        /\ e[2] < now

\* C18: a recordHit at time now that sweeps keeps every fine row with bucket >= now - 24h,
\* deletes exactly the rows with bucket < alignDown(now - 24h, 600), and leaves every
\* other row as it was, the row it has just incremented included.
C18_SweepDeletesExactlyOld ==
    [][lastCleanup' # lastCleanup =>
          LET cutoff == alignDown(now - DAY, TEN_MINUTES)
              w == alignDown(now, TEN_MINUTES)
              k == CHOOSE x \in Keys : CopiesIn(<<x, now>>, hitLog') > CopiesIn(<<x, now>>, hitLog)
          IN  /\ \A r \in image_stats_10min :
                    r.bucket >= now - DAY =>
                        RowsOf(image_stats_10min', r.image_key, r.bucket) # {}
              /\ \A r \in image_stats_10min :
                    r.bucket < cutoff =>
                        RowsOf(image_stats_10min', r.image_key, r.bucket) = {}
              /\ \A r \in image_stats_10min :
                    (r.bucket >= cutoff /\ ~(r.image_key = k /\ r.bucket = w)) =>
                        r \in image_stats_10min'
              /\ Row(k, w, 1 + SumHits(RowsOf(image_stats_10min, k, w))) \in image_stats_10min'
              /\ \A q \in image_stats_10min' :
                    (q.image_key = k /\ q.bucket = w) \/ q \in image_stats_10min]_vars

\* a sweep has just run and kept the row of an earlier window next to the new one
C18_Witness ==
    /\ lastCleanup = now
    /\ \E e \in BagToSet(hitLog) : e[2] = now
    /\ \E r \in image_stats_10min :
          r.bucket < alignDown(now, TEN_MINUTES) /\ r.bucket >= alignDown(now - DAY, TEN_MINUTES)

\* C19: a failure of one of recordHit's three increments neither prevents the other
\* two nor is fatal: when the fine increment fails, the medium and coarse rows of the
\* hit are still incremented and recordHit returns without raising.
C19_PartialFailureTolerated ==
    (res.op = "GET /i/:key" /\ res.fault = "increment10Min") =>
        /\ HitsAt(image_stats, res.key, alignDown(now, HOUR)) = res.was.hour + 1
        /\ HitsAt(image_stats_daily, res.key, alignDown(now, DAY)) = res.was.day + 1
        /\ ~res.threw

\* C20: a store failure while recording a hit is never surfaced: every GET /i/:key with
\* a non-empty key and R2_PUBLIC_URL configured is answered with the 307 redirect,
\* whether or not recordHit succeeded.
C20_HitAlwaysRedirects ==
    (res.op = "GET /i/:key" /\ res.key # "" /\ res.r2 # "") => res.status = 307

\* C12: downsample is idempotent: for a fixed window [minX, maxX] and maxPoints >= 1,
\* downsampling the output of downsample again returns that output unchanged.
C12_DownsampleIdempotent ==
    res.op = "redownsample" => res.again = res.out

\* the first pass merged points into chunks, one of them with a fractional mean
C12_Witness ==
    /\ res.op = "redownsample"
    /\ Len(res.out.timestamps) >= 2
    /\ Len(res.out.timestamps) < Len(res.timestamps)
    /\ res.minX > At(res.timestamps, 0)
    /\ \E i \in 1..Len(res.out.hits) : res.out.hits[i][2] > 1

\* C11: when a zoom asks for a viewport [min, max] that lies fully inside the range of
\* the cached 10min entry, the chart is rendered at once from that entry and no new
\* fetch is issued.
C11_FineCacheZoomNoFetch ==
    (/\ view.by = "handleSelect"
     /\ "10min" \in DOMAIN view.cache
     /\ view.cache["10min"].range.start <= view.selMin
     /\ view.selMax <= view.cache["10min"].range.end) =>
        (view.best = "10min" /\ ~view.fetched)

\* hits recorded at a second whose bucket of the given period lies in [since, end]
LoggedIn(period, since, end) ==
    {e \in BagToSet(hitLog) : alignDown(e[2], period) >= since /\ alignDown(e[2], period) <= end}

\* C21: a read over a range in which no hit was recorded returns an empty result and
\* does not fail: getTotalHits gives 0, getTopImages and getStats give an empty list,
\* getTraffic (both revisions) gives a granularity label with an empty data series.
C21_EmptyRangeIsEmptyResult ==
    LET since == IF res.op = "getTrafficOpts" /\ res.options # NoOptions
                 THEN res.options.startTime ELSE now - res.sinceDays * DAY
        end == IF res.op = "getTrafficOpts" /\ res.options # NoOptions
               THEN res.options.endTime ELSE now
        none(period) == LoggedIn(period, since, end) = {}
        Labels == {"10min", "hourly", "daily"}
    IN  /\ (res.op = "getTotalHits" /\ none(HOUR)) => res.out = 0
        /\ (res.op = "getTopImages" /\ none(HOUR) /\ none(TEN_MINUTES)) => res.out = <<>>
        /\ (res.op = "getStats" /\ none(HOUR)) => res.out = <<>>
        /\ (res.op \in {"getTraffic", "getTrafficOpts"}
               /\ none(TEN_MINUTES) /\ none(HOUR) /\ none(DAY)) =>
              (res.out.data = <<>> /\ res.out.granularity \in Labels)

\* a read over a range without hits on a store that holds older hits
C21_Witness ==
    /\ image_stats # {}
    /\ res.op \in {"getTraffic", "getTrafficOpts"}
    /\ res.op = "getTrafficOpts" => res.options = NoOptions
    /\ LoggedIn(DAY, now - res.sinceDays * DAY, now) = {}
    /\ res.out.data = <<>>

\* C22: a traffic query whose range has end < start is rejected at the route as an
\* invalid range, and no statement is run against the store for it.
C22_InvertedRangeRejected ==
    (/\ res.op = "GET /api/stats/traffic"
     /\ res.start # NoParam /\ res.end # NoParam
     /\ res.end < res.start) =>
        (res.status = 400 /\ res.statements = 0)

\* the fetchData calls still waiting whose controller has not been aborted
Outstanding == {f \in pending : f.id \notin aborted}

\* C23: at most one fetchData call that has not been aborted is outstanding: a step
\* that starts a call leaves every earlier call aborted; and a step in which the
\* responses of an aborted call arrive changes neither the LOD cache nor the
\* overview panel nor the chart.
C23_AbortedFetchDiscarded ==
    /\ Cardinality(Outstanding) <= 1
    /\ [][/\ Cardinality(Outstanding') <= 1
          /\ nFetch' # nFetch => Outstanding' = {f \in pending' : f.id = nFetch'}
          /\ \A f \in pending \ pending' :
                f.id \in aborted => UNCHANGED <<lodCache, overview, chart>>]_vars

\* the responses of the first call have been applied, a later call was aborted by a
\* third one, and the aborted call has gone while the third still waits
C23_Witness ==
    /\ overview # NoOverview /\ chart # NoChart
    /\ nFetch = 3 /\ 2 \in aborted
    /\ \A f \in pending : f.id = 3

\* C24: the step in which a fetchData call ends by a rejected fetch, a network error
\* or an abort, changes neither the LOD cache nor the chart; after a network error
\* the cache is the one the call found when it started.
C24_FailureKeepsCacheAndChart ==
    [][\A f \in pending \ pending' :
          (f.id \in aborted \/ f.id \in consoleErrors') =>
              /\ UNCHANGED <<lodCache, chart>>
              /\ f.id \in consoleErrors' => lodCache' = f.found]_vars

\* a zoom fetch has failed on a dashboard that shows a chart from a populated cache
C24_Witness ==
    /\ consoleErrors # {} /\ 1 \notin consoleErrors
    /\ lodCache # <<>> /\ chart # NoChart
    /\ pending = {} /\ ~isLoading

\* the fetchData calls whose responses arrive in this step and are applied
Completing == {f \in pending \ pending' : f.id \notin aborted /\ f.id \notin consoleErrors'}

\* the slots other than G are what they were
OtherSlotsKept(G) ==
    \A g \in (DOMAIN lodCache \cup DOMAIN lodCache') \ {G} :
        g \in DOMAIN lodCache /\ g \in DOMAIN lodCache' /\ lodCache'[g] = lodCache[g]

\* C25 as stated: whenever the responses of a call that was not aborted arrive with
\* granularity G, slot G afterwards holds exactly the series of the response, also
\* when that series is empty, and the other slots are unchanged.
C25_SlotAlwaysReplaced ==
    [][\A f \in Completing :
          LET G == Serve(f).granularity
              t == transformTraffic(Serve(f))
          IN  /\ G \in DOMAIN lodCache'
              /\ lodCache'[G].timestamps = t.timestamps
              /\ lodCache'[G].hits = t.hits
              /\ OtherSlotsKept(G)]_vars

\* C25, amended: a response with a series that is not empty replaces slot G as a
\* whole by the granularity, range [first, last] and series of the response, the
\* other slots unchanged; a response with an empty series changes no slot.
C25_SlotReplacedUnlessEmpty ==
    [][\A f \in Completing :
          LET G == Serve(f).granularity
              t == transformTraffic(Serve(f))
              n == Len(t.timestamps)
          IN  IF n = 0 THEN lodCache' = lodCache
              ELSE /\ G \in DOMAIN lodCache'
                   /\ lodCache'[G] = [granularity |-> G, timestamps |-> t.timestamps,
                                      hits |-> t.hits,
                                      range |-> [start |-> t.timestamps[1],
                                                 end |-> t.timestamps[n]]]
                   /\ OtherSlotsKept(G)]_vars

\* the hourly slot a first zoom filled has been replaced by the series of a second
\* zoom, which has another number of points, next to the 10min slot of the first load
C25_Witness ==
    /\ DOMAIN lodCache = {"10min", "hourly"}
    /\ nFetch = 3 /\ pending = {}
    /\ view.by = "handleSelect" /\ "hourly" \in DOMAIN view.cache
    /\ Len(view.cache["hourly"].timestamps) # Len(lodCache["hourly"].timestamps)

\* the slots of the cache handleSelect found whose range contains its viewport
Containing ==
    {g \in DOMAIN view.cache : /\ view.cache[g].range.start <= view.min
                               /\ view.cache[g].range.end >= view.max}

Finest(slots) ==
    IF "10min" \in slots THEN "10min" ELSE IF "hourly" \in slots THEN "hourly" ELSE "daily"

\* C26: when a slot contains the viewport of handleSelect, the slot picked is the
\* finest containing one (10min before hourly before daily), and the chart shows the
\* downsampled window of that slot whenever that window has a point.
C26_FinestContainingSlotUsed ==
    (view.by = "handleSelect" /\ Containing # {}) =>
        LET e == view.cache[Finest(Containing)]
            ds == downsample(e.timestamps, e.hits, view.min, view.max,
                             maxPointsOf(clientWidth))
        IN  /\ view.best = e.granularity
            /\ ds.timestamps # <<>> => view.shown = ds

\* the hourly and the daily slot both contain the viewport and the hourly one is shown
C26_Witness ==
    /\ view.by = "handleSelect"
    /\ Containing = {"hourly", "daily"}
    /\ view.best = "hourly"
    /\ view.shown.timestamps # <<>>
    /\ view.shown.timestamps # view.cache["daily"].timestamps

\* only the daily slot contains the viewport although the hourly slot is populated
C26_CoarserWitness ==
    /\ view.by = "handleSelect"
    /\ "hourly" \in DOMAIN view.cache /\ Containing = {"daily"}
    /\ view.best = "daily"

\* C27: a handleSelect whose viewport no slot of the cache contains has started a
\* fetchData call for that viewport.
C27_UncoveredZoomFetches ==
    (view.by = "handleSelect" /\ Containing = {}) => view.fetched

\* the points of a week of hourly buckets: the span up to which the hourly branch
\* keeps native buckets
TargetPoints == 7 * 24

\* seconds per bucket of a series with this label
SizeOf(label) ==
    IF label = "10min" THEN TEN_MINUTES
    ELSE IF label = "hourly" THEN HOUR
    ELSE IF label = "daily" THEN DAY
    ELSE IF MultiplierOf(label, "hourly") > 0 THEN MultiplierOf(label, "hourly") * HOUR
    ELSE MultiplierOf(label, "daily") * DAY

\* the number of points the answer has when every bucket from its first to its last
\* holds a hit
Capacity(out) ==
    (out.data[Len(out.data)].bucket - out.data[1].bucket) \div SizeOf(out.granularity) + 1

IsSeries == IsTraffic \/ res.op = "getStats"
SeriesOut == IF IsTraffic THEN res.out.data ELSE res.out
SeriesSize == IF IsTraffic THEN SizeOf(res.out.granularity) ELSE HOUR

StrictlyAscending(data) == \A i \in 1..Len(data) - 1 : data[i].bucket < data[i + 1].bucket

\* C29 as stated: every series getTraffic and getStats return is strictly ascending in
\* bucket and every bucket lies in [start, end] of the requested range.
C29_AscendingWithinBounds ==
    IsSeries =>
        /\ StrictlyAscending(SeriesOut)
        /\ \A b \in Buckets(SeriesOut) : ReqSince <= b /\ b <= ReqEnd

\* C29, amended: every series is strictly ascending and no bucket lies after the end
\* of the range; a series of native buckets has no bucket before the start, a
\* super-bucket starts at or after the start of the range rounded down to the
\* super-bucket size.
C29_AscendingWithinRoundedBounds ==
    IsSeries =>
        /\ StrictlyAscending(SeriesOut)
        /\ \A b \in Buckets(SeriesOut) :
              /\ b <= ReqEnd
              /\ b >= alignDown(ReqSince, SeriesSize)
              /\ SeriesSize \in {TEN_MINUTES, HOUR, DAY} => b >= ReqSince

\* a series of 4-hour super-buckets whose first bucket starts before the range does
C29_Witness ==
    /\ res.op = "getTraffic" /\ Len(res.out.data) = 2
    /\ res.out.granularity = "4hourly"
    /\ res.out.data[1].bucket < ReqSince

\* the positions of the series whose timestamp lies in the window [minX, maxX]
WindowIdx == {i \in 1..Len(res.timestamps) : res.minX <= res.timestamps[i] /\ res.timestamps[i] <= res.maxX}

\* the sum of whole hit counts hs[a..b]
RECURSIVE TotalOf(_, _, _)
TotalOf(hs, a, b) == IF a > b THEN 0 ELSE hs[a][1] + TotalOf(hs, a + 1, b)

\* what the claim says downsample returns for the positions idx of the series
ChunkedSlice(idx) ==
    LET n == Cardinality(idx)
        lo == IF idx = {} THEN 1 ELSE MinOf(idx)
        ts == SubSeq(res.timestamps, lo, lo + n - 1)
        hs == SubSeq(res.hits, lo, lo + n - 1)
        size == (n + res.maxPoints - 1) \div res.maxPoints
        chunks == (n + size - 1) \div size
        lastOf(c) == IF c * size < n THEN c * size ELSE n
    IN  IF n <= res.maxPoints THEN [timestamps |-> ts, hits |-> hs]
        ELSE [timestamps |-> [c \in 1..chunks |-> ts[(c - 1) * size + 1]],
              hits |-> [c \in 1..chunks |->
                          Fraction(TotalOf(hs, (c - 1) * size + 1, lastOf(c)),
                                   lastOf(c) - (c - 1) * size)]]

\* C30: downsample returns the slice of the series inside the window unchanged when
\* it has at most maxPoints points, and otherwise one point per chunk of
\* ceil(sliceLen / maxPoints) consecutive slice elements, with the chunk's first
\* timestamp and the mean of its hits; the output has at most maxPoints points.
C30_DownsampleChunksWindow ==
    res.op = "downsample" =>
        /\ res.out = ChunkedSlice(WindowIdx)
        /\ Len(res.out.timestamps) <= res.maxPoints

\* the same for every call in which the series has a timestamp <= maxX or none >= minX
C30_ExceptWindowBeforeData ==
    (/\ res.op = "downsample"
     /\ \/ \E i \in 1..Len(res.timestamps) : res.timestamps[i] <= res.maxX
        \/ \A i \in 1..Len(res.timestamps) : res.timestamps[i] < res.minX) =>
        /\ res.out = ChunkedSlice(WindowIdx)
        /\ Len(res.out.timestamps) <= res.maxPoints

\* what fetchData asked for, against the currentRange it found
RequestFollowsRange(f) ==
    /\ "start" \in DOMAIN f.request <=> f.range # NullRange
    /\ f.range = NullRange => f.request = [days |-> f.days]
    /\ f.range # NullRange => f.request = [start |-> f.range.start, end |-> f.range.end]
    /\ f.cause = "zoom" <=> f.range # NullRange

\* C31: a fetchData call asks for an explicit start/end window exactly when
\* currentRange is set as the call starts: the first load, a day button or history
\* step and a reset start it with currentRange = null and ask for the last N days,
\* a zoom sets currentRange to its viewport and asks for that window.
C31_WindowIffCurrentRange ==
    /\ \A f \in pending : f.range = currentRange /\ RequestFollowsRange(f)
    /\ [][\A f \in pending' \ pending :
            /\ f.range = currentRange' /\ f.days = days'
            /\ RequestFollowsRange(f)
            /\ f.cause = "zoom" =>
                  f.range = [start |-> view'.min, end |-> view'.max]]_vars

\* a reset asks for the last N days after a zoom has asked for its window
C31_Witness ==
    /\ view.by = "handleSelect" /\ view.fetched
    /\ currentRange = NullRange
    /\ \E f \in pending : f.cause = "reset" /\ f.request = [days |-> days]
    /\ \E f \in pending : f.cause = "zoom" /\ f.id \in aborted /\ "start" \in DOMAIN f.request

\* C32: when the responses of a full-range load (first load, day button, history
\* step or reset) are applied, the cache holds no entry of an earlier call: its only
\* slot, if any, is the one of this response.
C32_FullLoadRebuildsCache ==
    [][\A f \in Completing :
          f.range = NullRange => DOMAIN lodCache' \subseteq {Serve(f).granularity}]_vars

\* the table a label stands for
FamilyOf(label) ==
    IF label = "10min" THEN "10min"
    ELSE IF label = "hourly" \/ MultiplierOf(label, "hourly") > 0 THEN "hourly"
    ELSE "daily"

\* C33: for the window of a traffic query, start <= end, the granularity the client
\* targets names the table getTraffic answers from whenever that table has a row in
\* the window: the answer carries that table's label and sums that table's rows.
C33_ClientMirrorsServerThresholds ==
    (IsTraffic /\ ReqSince <= ReqEnd) =>
        LET g == getGranularityForRange(ReqSince, ReqEnd)
            table == IF g = "10min" THEN image_stats_10min
                     ELSE IF g = "hourly" THEN image_stats ELSE image_stats_daily
        IN  ReqRows(table) # {} =>
                /\ FamilyOf(res.out.granularity) = g
                /\ SeqSumHits(res.out.data) = SumHits(ReqRows(table))

\* a window of exactly one day answered from the fine table
C33_Witness ==
    /\ res.op = "getTrafficOpts" /\ ReqSpan = DAY
    /\ res.out.granularity = "10min" /\ res.out.data # <<>>
    /\ getGranularityForRange(ReqSince, ReqEnd) = "10min"

\* C34: a handleSelect for the viewport whose zoom fetch was the last one applied
\* to the cache finds an entry that contains the viewport and starts no fetch.
C34_RepeatedZoomServedFromCache ==
    (view.by = "handleSelect" /\ view.applied = [start |-> view.min, end |-> view.max]) =>
        (~view.fetched /\ Containing # {})

\* C35: whatever label the applied responses carried, the cache has no slot but the
\* three getBestCacheForRange searches, and once a response has been applied the
\* search over the loaded range finds an entry.
C35_EveryLabelHasSlot ==
    /\ DOMAIN lodCache \subseteq {"10min", "hourly", "daily"}
    /\ (lastApplied # NoRequest /\ originalRange # NullRange) =>
          getBestCacheForRange(lodCache, originalRange.start, originalRange.end) # NoEntry


----------------------------------------------------------------------------
\* C36: once a Slack file message has been processed and every Slack call is
\* answered, the first reaction the bot added is :spinny_fox:, that reaction is
\* gone again, and the bot added exactly one final reaction: the success
\* reaction when at least one file was uploaded, :rac-concern: otherwise.
Processed == slackPc = "done" /\ \A c \in DOMAIN slackCalls : slackCalls[c] # "pending"

FinalReactions == SelectSeq(reactionLog, LAMBDA r : r \in {SuccessReaction, ErrorReaction})

C36_ReactionProtocol ==
    Processed =>
        /\ reactionLog # <<>>
        /\ reactionLog[1] = LoadingReaction
        /\ LoadingReaction \notin reactions
        /\ FinalReactions = << IF urls # {} THEN SuccessReaction ELSE ErrorReaction >>


----------------------------------------------------------------------------
\* C37: after any sequence of recordHit calls and sweeps, for every key the hits
\* of its medium rows and the hits of its coarse rows both add up to the number
\* of recordHit calls made for that key, and for every key and hour the fine
\* rows that survive inside that hour add up to no more than the medium row of
\* that hour.
KeyRows(table, k) == {r \in table : r.image_key = k}

CallsFor(k) == BagCardinality([e \in {x \in DOMAIN hitLog : x[1] = k} |-> hitLog[e]])

FineInHour(k, hour) == {r \in KeyRows(image_stats_10min, k) : alignDown(r.bucket, HOUR) = hour}

MediumHits(k, hour) == SumHits({r \in KeyRows(image_stats, k) : r.bucket = hour})

C37_RollupsConsistent ==
    \A k \in Keys :
        /\ SumHits(KeyRows(image_stats, k)) = CallsFor(k)
        /\ SumHits(KeyRows(image_stats_daily, k)) = CallsFor(k)
        /\ \A f \in KeyRows(image_stats_10min, k) :
              LET hour == alignDown(f.bucket, HOUR)
              IN  SumHits(FineInHour(k, hour)) <= MediumHits(k, hour)

\* a key was hit twice and a sweep has removed one of its fine rows while another survives
C37_Witness ==
    \E k \in Keys :
        /\ CallsFor(k) = 2
        /\ KeyRows(image_stats_10min, k) # {}
        /\ SumHits(KeyRows(image_stats_10min, k)) < SumHits(KeyRows(image_stats, k))


----------------------------------------------------------------------------
\* C38: once recordHit has run, every fine row starts at or after the cutoff of
\* the most recent sweep, alignDown(lastCleanup - 86400, 600); a fine row older
\* than 24 hours is one the clock has passed since that sweep.
LastCutoff == alignDown(lastCleanup - DAY, TEN_MINUTES)

C38_NoFineRowBelowLastCutoff ==
    hitLog # EmptyBag =>
        /\ lastCleanup > 0
        /\ lastCleanup <= now
        /\ \A r \in image_stats_10min : r.bucket >= LastCutoff

\* between two sweeps: the clock has moved on since the last one, and a fine row is
\* older than 24 hours without being below the last cutoff
C38_Witness ==
    /\ hitLog # EmptyBag
    /\ lastCleanup < now
    /\ \E r \in image_stats_10min : r.bucket < now - DAY /\ r.bucket >= LastCutoff


----------------------------------------------------------------------------
\* C39: the loading indicator follows the most recently issued fetchData alone:
\* isLoading is true exactly while that call is in flight and false once it has
\* settled, whatever older, aborted calls are still in flight or have completed.
Newest == {f \in pending : f.id = abortController}

C39_LoadingTracksNewestFetch ==
    abortController # 0 =>
        /\ abortController = nFetch
        /\ abortController \notin aborted
        /\ isLoading <=> Newest # {}

\* an older, aborted call has completed while the newest one is still in flight
C39_Witness ==
    /\ Newest # {}
    /\ isLoading
    /\ \E id \in aborted : \A f \in pending : f.id # id


----------------------------------------------------------------------------
\* C40: every timestamp downsample returns lies inside [minX, maxX]; when the
\* series has no timestamp <= maxX, or none >= minX, it returns no points.
InsideWindow(out, minX, maxX) ==
    \A i \in 1..Len(out.timestamps) : minX <= out.timestamps[i] /\ out.timestamps[i] <= maxX

C40_DownsampleInsideWindow ==
    res.op = "downsample" =>
        /\ InsideWindow(res.out, res.minX, res.maxX)
        /\ (\/ \A i \in 1..Len(res.timestamps) : res.timestamps[i] > res.maxX
            \/ \A i \in 1..Len(res.timestamps) : res.timestamps[i] < res.minX) =>
              res.out = NoPoints

====
